---- MODULE Spec2Model ----
(***************************************************************************)
(* ENTSOE ETL pipeline: orchestrator (main.py), market data client         *)
(* (entsoe_api.py, utils.retry_function), transformer (transform.py) and   *)
(* storage writer (load.py).                                               *)
(*                                                                         *)
(* Conventions of the model                                                *)
(*  - a calendar day is an integer; BadDate stands for a string that       *)
(*    strptime("%Y-%m-%d") rejects;                                        *)
(*  - a datetime is [wall, tz]: the wall-clock hour and how it is tagged   *)
(*    ("utc", "cet" = aware at +01:00, "naive", "NaT" = missing);          *)
(*  - a cell of a numeric column is [t, v]: a float ("num"), a string that *)
(*    float() parses to v ("str"), a string float() rejects ("bad") or     *)
(*    None/NaN ("none");                                                   *)
(*  - a DataFrame is the sequence of its rows; a table is the set of its   *)
(*    rows (the SERIAL id column, which no statement reads, is left out).  *)
(***************************************************************************)
EXTENDS Integers, Sequences, FiniteSets, TLC

\* ---------------------------------------------------------------- bounds
MaxDay == 3
MaxRaw == 3
MaxBatch == 2
MaxPoints == 2
MaxSeries == 2

\* ------------------------------------------------------------- constants
BadDate == 0
NULL == "NULL"
NaT == [wall |-> 0, tz |-> "NaT"]
None == [t |-> "none", v |-> 0]
NoColumn == 0
BerlinUtcOffset == 1
CetUtcOffset == 1

Num(n) == [t |-> "num", v |-> n]
Str(n) == [t |-> "str", v |-> n]
Utc(h) == [wall |-> h, tz |-> "utc"]

\* --------------------------------------------------------------- utils.py
\* variant: the start date is appended before the first comparison
get_date_range_from_do_while(current, end) ==
    <<current>> \o [i \in 1..(end - current) |-> current + i]

\* get_date_range 93-96: while current <= end
RECURSIVE get_date_range_from(_, _)
get_date_range_from(current, end) ==
    IF current <= end THEN <<current>> \o get_date_range_from(current + 1, end)
    ELSE << >>

\* variant: the end date is left out
get_date_range_exclusive(start_date, end_date) == get_date_range_from(start_date, end_date - 1)

get_date_range(start_date, end_date) == get_date_range_from(start_date, end_date)

\* variant: every value is read as Berlin wall-clock time, aware or not
normalize_utc_time_as_local(dt) ==
    IF dt.tz = "NaT" THEN dt ELSE Utc(dt.wall - BerlinUtcOffset)

normalize_utc_time(dt) ==
    IF dt.tz = "naive" THEN Utc(dt.wall - BerlinUtcOffset)
    ELSE IF dt.tz = "cet" THEN Utc(dt.wall - CetUtcOffset)
    ELSE dt

safe_float(value) ==
    CASE value.t = "none" -> None
      [] value.t = "bad" -> None
      [] value.t = "str" -> Num(value.v)
      [] value.t = "num" -> IF value.v = 0 THEN None ELSE Num(value.v)

\* the columns of a frame: the fields every row has (created_at is a field
\* of every modelled row and holds NoColumn while the frame lacks the column)
Columns(df) ==
    {c \in UNION {DOMAIN df[i] : i \in 1..Len(df)} :
        \A i \in 1..Len(df) :
            /\ c \in DOMAIN df[i]
            /\ (c = "created_at" => df[i].created_at # NoColumn)}

\* df is None or df.empty -> False; a missing required column -> False
validate_dataframe(df, required_columns) ==
    /\ df # << >>
    /\ required_columns \subseteq Columns(df)

\* variant: one attempt more
stop_after_attempt_4 == 3 + 1

stop_after_attempt == 3

\* ------------------------------------------------------------ sequences
Range(s) == {s[i] : i \in 1..Len(s)}

RECURSIVE InsertSorted(_, _)
InsertSorted(sorted, r) ==
    IF sorted = << >> THEN <<r>>
    ELSE IF Head(sorted).datetime_utc.wall <= r.datetime_utc.wall
         THEN <<Head(sorted)>> \o InsertSorted(Tail(sorted), r)
         ELSE <<r>> \o sorted

\* DataFrame.sort_values('datetime_utc'): ascending, ties left in row order
RECURSIVE sort_values(_)
sort_values(s) ==
    IF s = << >> THEN << >>
    ELSE InsertSorted(sort_values(SubSeq(s, 1, Len(s) - 1)), s[Len(s)])

\* ----------------------------------------------------------- transform.py
BRKey(r) == <<r.country_code, r.datetime_utc, r.product>>
DAPKey(r) == <<r.country_code, r.datetime_utc>>

\* variant: a zero amount passes
BRValid_allows_zero(r) ==
    /\ r.datetime_utc # NaT
    /\ r.country_code # NULL
    /\ r.product # NULL
    /\ r.volume_mw.t = "num"
    /\ r.volume_mw.v >= 0

\* dropna(datetime_utc), dropna(country_code), dropna(product),
\* volume_mw.notna() & volume_mw > 0
BRValid(r) ==
    /\ r.datetime_utc # NaT
    /\ r.country_code # NULL
    /\ r.product # NULL
    /\ r.volume_mw.t = "num"
    /\ r.volume_mw.v > 0

\* dropna(datetime_utc), dropna(country_code),
\* price_eur_per_mwh.notna() & price_eur_per_mwh >= 0
DAPValid(r) ==
    /\ r.datetime_utc # NaT
    /\ r.country_code # NULL
    /\ r.price_eur_per_mwh.t = "num"
    /\ r.price_eur_per_mwh.v >= 0

\* variant: keep='first'
RECURSIVE drop_duplicates_br_keep_first(_)
drop_duplicates_br_keep_first(s) ==
    IF s = << >> THEN << >>
    ELSE IF \E j \in 1..(Len(s) - 1) : BRKey(s[j]) = BRKey(s[Len(s)])
         THEN drop_duplicates_br_keep_first(SubSeq(s, 1, Len(s) - 1))
         ELSE drop_duplicates_br_keep_first(SubSeq(s, 1, Len(s) - 1)) \o <<s[Len(s)]>>

\* drop_duplicates(subset=[country_code, datetime_utc, product], keep='last')
RECURSIVE drop_duplicates_br(_)
drop_duplicates_br(s) ==
    IF s = << >> THEN << >>
    ELSE IF \E j \in 2..Len(s) : BRKey(s[j]) = BRKey(s[1])
         THEN drop_duplicates_br(Tail(s))
         ELSE <<Head(s)>> \o drop_duplicates_br(Tail(s))

\* drop_duplicates(subset=[country_code, datetime_utc], keep='last')
RECURSIVE drop_duplicates_dap(_)
drop_duplicates_dap(s) ==
    IF s = << >> THEN << >>
    ELSE IF \E j \in 2..Len(s) : DAPKey(s[j]) = DAPKey(s[1])
         THEN drop_duplicates_dap(Tail(s))
         ELSE <<Head(s)>> \o drop_duplicates_dap(Tail(s))

\* variant: the invalid rows are removed, the duplicates stay
remove_invalid_records_br_keeps_duplicates(df) == SelectSeq(df, BRValid)

\* _remove_invalid_records for 'balancing_reserves' / 'day_ahead_prices'
remove_invalid_records_br(df) == drop_duplicates_br(SelectSeq(df, BRValid))

remove_invalid_records_dap(df) == drop_duplicates_dap(SelectSeq(df, DAPValid))

\* the two column assignments of transform_balancing_reserves (42-47)
coerce_br(df) ==
    [i \in 1..Len(df) |-> [df[i] EXCEPT !.datetime_utc = normalize_utc_time(@),
                                        !.volume_mw = safe_float(@)]]

\* the two column assignments of transform_day_ahead_prices (86-91)
coerce_dap(df) ==
    [i \in 1..Len(df) |-> [df[i] EXCEPT !.datetime_utc = normalize_utc_time(@),
                                        !.price_eur_per_mwh = safe_float(@)]]

\* variant: df_transformed = df, the caller's frame itself
df_copy_alias(df) == "input"

\* df_transformed = df.copy(): the frame the column assignments write to
df_copy(df) == "copy"

\* the caller's frame after the call: the column assignments land in it only
\* when df_transformed is that frame; every later step builds a new frame
input_after_transform_br(df) ==
    IF df = << >> THEN df
    ELSE IF df_copy(df) = "input" THEN coerce_br(df) ELSE df

input_after_transform_dap(df) ==
    IF df = << >> THEN df
    ELSE IF df_copy(df) = "input" THEN coerce_dap(df) ELSE df

\* which frame the caller gets back: its own for an empty input (return df),
\* otherwise the one sort_values(...).reset_index(drop=True) built
returned_frame(df) == IF df = << >> THEN "input" ELSE "new"

transform_balancing_reserves(df, now) ==
    IF df = << >> THEN df
    ELSE LET coerced == coerce_br(df)
             clean == remove_invalid_records_br(coerced)
             stamped == [i \in 1..Len(clean) |-> [clean[i] EXCEPT !.created_at = now]]
         IN sort_values(stamped)

transform_day_ahead_prices(df, now) ==
    IF df = << >> THEN df
    ELSE LET coerced == coerce_dap(df)
             clean == remove_invalid_records_dap(coerced)
             stamped == [i \in 1..Len(clean) |-> [clean[i] EXCEPT !.created_at = now]]
         IN sort_values(stamped)

\* the tz tags of the values of the datetime_utc column that are not NaT
TzTags(df) == {df[i].datetime_utc.tz : i \in {n \in 1..Len(df) : df[n].datetime_utc # NaT}}

\* pd.api.types.is_datetime64_any_dtype: values tagged in two ways make an
\* object column
is_datetime64_any_dtype(df) == Cardinality(TzTags(df)) <= 1

\* df[col].dt.tz: None for a column of naive values or of NaT only
dt_tz(df) == IF TzTags(df) \subseteq {"naive"} THEN "None" ELSE CHOOSE z \in TzTags(df) : TRUE

\* variant: any timezone-aware column passes
validate_transformed_data_any_tz(df, data_type) ==
    /\ df # << >>
    /\ data_type \in {"balancing_reserves", "day_ahead_prices"}
    /\ validate_dataframe(df, IF data_type = "balancing_reserves"
                              THEN {"country_code", "datetime_utc", "product", "volume_mw", "created_at"}
                              ELSE {"country_code", "datetime_utc", "price_eur_per_mwh", "created_at"})
    /\ is_datetime64_any_dtype(df)
    /\ dt_tz(df) # "None"

\* df.empty -> False; unknown data_type -> False; a missing required column
\* -> False; datetime_utc must be a datetime column, timezone-aware, and the
\* tzinfo of every value that is not NaT must be timezone.utc
validate_transformed_data(df, data_type) ==
    /\ df # << >>
    /\ data_type \in {"balancing_reserves", "day_ahead_prices"}
    /\ validate_dataframe(df, IF data_type = "balancing_reserves"
                              THEN {"country_code", "datetime_utc", "product", "volume_mw", "created_at"}
                              ELSE {"country_code", "datetime_utc", "price_eur_per_mwh", "created_at"})
    /\ is_datetime64_any_dtype(df)
    /\ dt_tz(df) # "None"
    /\ \A i \in 1..Len(df) : df[i].datetime_utc = NaT \/ df[i].datetime_utc.tz = "utc"

\* ---------------------------------------------------------------- load.py
\* a TIMESTAMP WITH TIME ZONE column stores the instant
timestamptz(dt) == normalize_utc_time(dt)

required_columns_br == {"country_code", "datetime_utc", "product", "volume_mw", "created_at"}
required_columns_dap == {"country_code", "datetime_utc", "price_eur_per_mwh", "created_at"}

StoredBR(r) == [r EXCEPT !.datetime_utc = timestamptz(@)]
StoredDAP(r) == [r EXCEPT !.datetime_utc = timestamptz(@)]

\* the statement raises: a NOT NULL column receives NULL, or ON CONFLICT DO
\* UPDATE would touch one target row twice
MergeRaisesBR(df) ==
    \/ \E i \in 1..Len(df) : \/ df[i].country_code = NULL
                             \/ df[i].datetime_utc = NaT
                             \/ df[i].product = NULL
    \/ \E i, j \in 1..Len(df) : i # j /\ BRKey(StoredBR(df[i])) = BRKey(StoredBR(df[j]))

MergeRaisesDAP(df) ==
    \/ \E i \in 1..Len(df) : \/ df[i].country_code = NULL
                             \/ df[i].datetime_utc = NaT
                             \/ df[i].price_eur_per_mwh.t # "num"
    \/ \E i, j \in 1..Len(df) : i # j /\ DAPKey(StoredDAP(df[i])) = DAPKey(StoredDAP(df[j]))

\* variant: a plain INSERT with no unique constraint to stop it
merge_sql_br_insert_only(table, df) ==
    table \cup {StoredBR(df[i]) : i \in 1..Len(df)}

\* INSERT INTO balancing_reserves ... SELECT ... FROM balancing_reserves_temp
\* ON CONFLICT (country_code, datetime_utc, product) DO UPDATE SET ...
merge_sql_br(table, df) ==
    LET incoming == {StoredBR(df[i]) : i \in 1..Len(df)}
    IN {t \in table : \A n \in incoming : BRKey(n) # BRKey(t)} \cup incoming

\* variant: ON CONFLICT DO NOTHING
merge_sql_dap_do_nothing(table, df) ==
    LET incoming == {StoredDAP(df[i]) : i \in 1..Len(df)}
    IN table \cup {n \in incoming : \A t \in table : DAPKey(n) # DAPKey(t)}

\* INSERT INTO day_ahead_prices ... ON CONFLICT (country_code, datetime_utc)
\* DO UPDATE SET ...
merge_sql_dap(table, df) ==
    LET incoming == {StoredDAP(df[i]) : i \in 1..Len(df)}
    IN {t \in table : \A n \in incoming : DAPKey(n) # DAPKey(t)} \cup incoming

\* variant: the target table is replaced by the batch
load_balancing_reserves_replace(table, df, db_up) ==
    IF df = << >> THEN [ok |-> TRUE, table |-> table]
    ELSE IF ~validate_dataframe(df, required_columns_br) THEN [ok |-> FALSE, table |-> table]
    ELSE IF ~db_up \/ MergeRaisesBR(df) THEN [ok |-> FALSE, table |-> table]
    ELSE [ok |-> TRUE, table |-> {StoredBR(df[i]) : i \in 1..Len(df)}]

\* db_up: the engine connects, the tables exist and no statement fails for a
\* reason outside the batch
load_balancing_reserves(table, df, db_up) ==
    IF df = << >> THEN [ok |-> TRUE, table |-> table]
    ELSE IF ~validate_dataframe(df, required_columns_br) THEN [ok |-> FALSE, table |-> table]
    ELSE IF ~db_up \/ MergeRaisesBR(df) THEN [ok |-> FALSE, table |-> table]
    ELSE [ok |-> TRUE, table |-> merge_sql_br(table, df)]

\* variant: an empty frame is a failed load
load_day_ahead_prices_empty_fails(table, df, db_up) ==
    IF df = << >> THEN [ok |-> FALSE, table |-> table]
    ELSE IF ~validate_dataframe(df, required_columns_dap) THEN [ok |-> FALSE, table |-> table]
    ELSE IF ~db_up \/ MergeRaisesDAP(df) THEN [ok |-> FALSE, table |-> table]
    ELSE [ok |-> TRUE, table |-> merge_sql_dap(table, df)]

load_day_ahead_prices(table, df, db_up) ==
    IF df = << >> THEN [ok |-> TRUE, table |-> table]
    ELSE IF ~validate_dataframe(df, required_columns_dap) THEN [ok |-> FALSE, table |-> table]
    ELSE IF ~db_up \/ MergeRaisesDAP(df) THEN [ok |-> FALSE, table |-> table]
    ELSE [ok |-> TRUE, table |-> merge_sql_dap(table, df)]

\* ------------------------------------------------------------------ state
VARIABLES
    pc,             \* position of main() / the run / _process_single_date
    mode,           \* args.mode
    start_date,     \* --date (daily) or --start-date (historical)
    end_date,       \* --end-date
    dates,          \* the list the run iterates
    idx,            \* number of dates the loop has finished
    success_count,
    error_count,
    get_log,        \* outcomes of the GET attempts of the fetch in progress
    br_df,          \* balancing_reserves_df of the date in progress
    dap_df,         \* day_ahead_prices_df of the date in progress
    br_success,
    day,            \* what has happened so far for the date in progress
    success,        \* value returned by the run: "none", "true", "false";
                    \* "raised" when the run raised instead of returning
    exit_code,      \* -1 until sys.exit is called
    interrupted,    \* a KeyboardInterrupt was raised
    cleaned,        \* pipeline.cleanup() has run
    init_log,       \* writer calls made by _initialize_database, in order
    processed,      \* one record per date the run has finished
    engine,         \* DatabaseLoader.engine: "None" or "engine"
    schema,         \* the two tables exist
    br_table,       \* rows of balancing_reserves
    dap_table,      \* rows of day_ahead_prices
    last_br,        \* key -> row most recently upserted with that key
    last_dap,
    last_load,      \* the last writer call: kind, and for a load_* call its
                    \* result, the batch if it was loaded, and whether it
                    \* repeats the batch of a successful call right before it
    t_pc,           \* transformer under test: "in", "out", "again", "validated"
    t_raw,          \* its input frame
    t_out,          \* its output frame
    t_frame,        \* which frame came back: the caller's ("input") or a "new" one
    t_again,        \* the output of the transform applied to t_out
    t_valid,        \* what validate_transformed_data returned
    c_pc,           \* client under test: position inside get_*
    c_kind,         \* "br": get_balancing_reserves, "dap": get_day_ahead_prices
    c_level,        \* settings.log_level
    c_requests,     \* the calls of requests.get made so far, with their params
    c_log,          \* the messages the client's logger has emitted
    c_doc,          \* what xmltodict.parse returned
    c_series,       \* what _extract_time_series returned
    c_records       \* the records of the frame the fetch returns

pvars == <<pc, mode, start_date, end_date, dates, idx, success_count, error_count,
           get_log, br_df, dap_df, br_success, day, success, exit_code,
           interrupted, cleaned, init_log, processed>>
lvars == <<engine, schema, br_table, dap_table, last_br, last_dap, last_load>>
tvars == <<t_pc, t_raw, t_out, t_frame, t_again, t_valid>>
cvars == <<c_pc, c_kind, c_level, c_requests, c_log, c_doc, c_series, c_records>>
vars == <<pvars, lvars, tvars, cvars>>

NoDay == [date |-> 0, fetched |-> {}, br_val |-> "none", dap_val |-> "none",
          br_up |-> "none", dap_up |-> "none", ok |-> FALSE, why |-> "none"]
NoLoad == [kind |-> "none", df |-> << >>, ok |-> FALSE, repeat |-> FALSE]
EmptyMap == [k \in {} |-> 0]

PipelineIdle ==
    /\ pc = "main" /\ mode = "daily" /\ start_date = 1 /\ end_date = 1
    /\ dates = << >> /\ idx = 0 /\ success_count = 0 /\ error_count = 0
    /\ get_log = << >> /\ br_df = << >> /\ dap_df = << >> /\ br_success = FALSE
    /\ day = NoDay /\ success = "none" /\ exit_code = -1
    /\ interrupted = FALSE /\ cleaned = FALSE
    /\ init_log = << >> /\ processed = << >>

LoaderInit ==
    /\ engine = "None" /\ schema = FALSE
    /\ br_table = {} /\ dap_table = {}
    /\ last_br = EmptyMap /\ last_dap = EmptyMap
    /\ last_load = NoLoad

TransformerIdle ==
    /\ t_pc = "idle" /\ t_raw = << >> /\ t_out = << >>
    /\ t_frame = "none" /\ t_again = << >> /\ t_valid = "none"

Absent == [shape |-> "absent"]
ClientIdle ==
    /\ c_pc = "idle" /\ c_kind = "br" /\ c_level = "INFO"
    /\ c_requests = << >> /\ c_log = << >>
    /\ c_doc = Absent /\ c_series = << >> /\ c_records = << >>

\* ----------------------------------------------------- what a fetch returns
\* frames the client hands to the orchestrator for one date: no series, one
\* point the transform drops, two valid points under one key
RawBR(d, v) == [country_code |-> "DE", datetime_utc |-> Utc(d), product |-> "Primary Reserve",
                volume_mw |-> v, price_eur_per_mw |-> None, created_at |-> NoColumn]
RawDAP(d, v) == [country_code |-> "DE", datetime_utc |-> Utc(d),
                 price_eur_per_mwh |-> v, created_at |-> NoColumn]

FetchedBR(d) == { << >>, <<RawBR(d, None)>>, <<RawBR(d, Num(5)), RawBR(d, Num(7))>> }
FetchedDAP(d) == { << >>, <<RawDAP(d, Num(3)), RawDAP(d, Num(4))>>, <<RawDAP(d, Num(-5))>> }

\* ---------------------------------------------------------------- main.py
\* state after pipeline = ENTSOEETLPipeline(...), entering the try of main()
Init ==
    /\ pc = "main"
    /\ mode \in {"daily", "historical"}
    /\ start_date \in BadDate..MaxDay
    /\ end_date \in BadDate..MaxDay
    /\ (mode = "daily" => end_date = start_date)
    /\ dates = << >> /\ idx = 0 /\ success_count = 0 /\ error_count = 0
    /\ get_log = << >> /\ br_df = << >> /\ dap_df = << >> /\ br_success = FALSE
    /\ day = NoDay /\ success = "none" /\ exit_code = -1
    /\ interrupted = FALSE /\ cleaned = FALSE
    /\ init_log = << >> /\ processed = << >>
    /\ LoaderInit
    /\ TransformerIdle
    /\ ClientIdle

\* run_daily_etl 110-119 / run_historical_etl 51-69, up to _initialize_database
RunStart ==
    /\ pc = "main"
    /\ IF start_date = BadDate \/ end_date = BadDate
       THEN /\ success' = "false" /\ pc' = "return"
            /\ UNCHANGED dates
       ELSE /\ dates' = IF mode = "daily" THEN <<start_date>>
                        ELSE get_date_range(start_date, end_date)
            /\ pc' = "init_test"
            /\ UNCHANGED success
    /\ UNCHANGED <<mode, start_date, end_date, idx, success_count, error_count,
                   get_log, br_df, dap_df, br_success, day, exit_code,
                   interrupted, cleaned, init_log, processed>>
    /\ UNCHANGED <<lvars, tvars, cvars>>

\* _initialize_database: a writer call that returns False or raises ends the
\* run with False; only True lets the initialization go on
\* variant: the result of the writer call is not looked at
AfterInitCall_unchecked(r, go_on) == go_on

AfterInitCall(r, go_on) == IF r = "true" THEN go_on ELSE "return"

\* _initialize_database 143-147, 157-159
TestConnection ==
    /\ pc = "init_test"
    /\ \E r \in {"true", "false", "raise"} :
         /\ init_log' = Append(init_log, [call |-> "test_connection", r |-> r])
         /\ engine' = IF r = "raise" THEN engine ELSE "engine"
         /\ pc' = AfterInitCall(r, "init_create")
         /\ success' = IF pc' = "return" THEN "false" ELSE success
    /\ UNCHANGED <<mode, start_date, end_date, dates, idx, success_count, error_count,
                   get_log, br_df, dap_df, br_success, day, exit_code,
                   interrupted, cleaned, processed>>
    /\ UNCHANGED <<schema, br_table, dap_table, last_br, last_dap, last_load, tvars, cvars>>

\* _initialize_database 149-159
CreateTables ==
    /\ pc = "init_create"
    /\ \E r \in {"true", "false", "raise"} :
         /\ init_log' = Append(init_log, [call |-> "create_tables", r |-> r])
         /\ schema' = (schema \/ r = "true")
         /\ pc' = AfterInitCall(r, "loop")
         /\ success' = IF pc' = "return" THEN "false" ELSE success
    /\ UNCHANGED <<mode, start_date, end_date, dates, idx, success_count, error_count,
                   get_log, br_df, dap_df, br_success, day, exit_code,
                   interrupted, cleaned, processed>>
    /\ UNCHANGED <<engine, br_table, dap_table, last_br, last_dap, last_load, tvars, cvars>>

\* the date ends with this result: _process_single_date returns
EndDate(d, ok, why) == [d EXCEPT !.ok = ok, !.why = why]

\* variant: the run reports success whatever the error count
run_result_always_true(errors) == "true"

\* run_historical_etl 94: return error_count == 0
run_result(errors) == IF errors = 0 THEN "true" ELSE "false"

\* for date in dates (75-79) / run_daily_etl 122; run_historical_etl 88-94
LoopNext ==
    /\ pc = "loop"
    /\ IF idx < Len(dates)
       THEN /\ day' = [NoDay EXCEPT !.date = dates[idx + 1]]
            /\ get_log' = << >>
            /\ pc' = "fetch_br"
            /\ UNCHANGED success
       ELSE /\ success' = run_result(error_count)
            /\ day' = NoDay
            /\ get_log' = << >>
            /\ pc' = "return"
    /\ UNCHANGED <<mode, start_date, end_date, dates, idx, success_count, error_count,
                   br_df, dap_df, br_success, exit_code, interrupted, cleaned,
                   init_log, processed>>
    /\ UNCHANGED <<lvars, tvars, cvars>>

\* one attempt of requests.get inside utils.retry_function (tenacity
\* stop_after_attempt); entsoe_api._make_request 56-61, 72-74
HttpGet(k) ==
    /\ pc = "fetch_" \o k
    /\ \E outcome \in {"response", "exception"} :
         /\ get_log' = Append(get_log, outcome)
         /\ IF outcome = "response"
            THEN pc' = "resp_" \o k /\ UNCHANGED day
            ELSE IF Len(get_log') >= stop_after_attempt
                 THEN pc' = "date_done" /\ day' = EndDate(day, FALSE, "retry")
                 ELSE pc' = pc /\ UNCHANGED day
    /\ UNCHANGED <<mode, start_date, end_date, dates, idx, success_count, error_count,
                   br_df, dap_df, br_success, success, exit_code,
                   interrupted, cleaned, init_log, processed>>
    /\ UNCHANGED <<lvars, tvars, cvars>>

\* variant: each frame is transformed as soon as it is fetched
after_fetch_transforms_at_once(k) == IF k = "br" THEN "transform_br" ELSE "transform_dap"

\* _process_single_date 173-177: get_balancing_reserves, then
\* get_day_ahead_prices, then the transforms
after_fetch(k) == IF k = "br" THEN "fetch_dap" ELSE "transform_br"

\* variant: an error status sends the fetch back to another GET attempt
raise_for_status_retried(k) == "fetch_" \o k

\* response.raise_for_status() on a non-2xx status, outside retry_function:
\* the HTTPError is logged and re-raised by _make_request and by get_*, and
\* _process_single_date returns False
raise_for_status(k) == "date_done"

\* _make_request 63-67 (raise_for_status, xmltodict.parse) and
\* get_balancing_reserves 104-115 / get_day_ahead_prices 148-159
HandleResponse(k) ==
    /\ pc = "resp_" \o k
    /\ \E body \in {"2xx", "error_status", "bad_xml"} :
         IF body = "2xx"
         THEN /\ day' = [day EXCEPT !.fetched = @ \cup {k}]
              /\ IF k = "br"
                 THEN /\ \E df \in FetchedBR(day.date) : br_df' = df
                      /\ pc' = after_fetch(k)
                      /\ get_log' = << >>
                      /\ UNCHANGED dap_df
                 ELSE /\ \E df \in FetchedDAP(day.date) : dap_df' = df
                      /\ pc' = after_fetch(k)
                      /\ UNCHANGED <<br_df, get_log>>
         ELSE LET nxt == IF body = "error_status" THEN raise_for_status(k) ELSE "date_done"
              IN /\ pc' = nxt
                 /\ day' = IF nxt = "date_done"
                           THEN EndDate(day, FALSE, IF body = "error_status" THEN "http" ELSE "xml")
                           ELSE day
                 /\ UNCHANGED <<br_df, dap_df, get_log>>
    /\ UNCHANGED <<mode, start_date, end_date, dates, idx, success_count, error_count,
                   br_success, success, exit_code,
                   interrupted, cleaned, init_log, processed>>
    /\ UNCHANGED <<lvars, tvars, cvars>>

\* datetime.now(timezone.utc) while date number idx + 1 is in progress
Now == idx + 1

\* variant: a failed validation is recorded but the date goes on
AfterValidate_goes_on(d, k, valid, go_on) ==
    LET col == IF k = "br" THEN "br_val" ELSE "dap_val"
    IN [pc |-> go_on, day |-> [d EXCEPT ![col] = IF valid THEN "true" ELSE "false"]]

\* _process_single_date 179-181 / 185-187: a frame that fails validation ends
\* the date with False
AfterValidate(d, k, valid, go_on) ==
    LET col == IF k = "br" THEN "br_val" ELSE "dap_val"
    IN IF valid
       THEN [pc |-> go_on, day |-> [d EXCEPT ![col] = "true"]]
       ELSE [pc |-> "date_done", day |-> EndDate([d EXCEPT ![col] = "false"], FALSE, "validation")]

\* _process_single_date 177-181
TransformBR ==
    /\ pc = "transform_br"
    /\ IF br_df # << >>
       THEN LET out == transform_balancing_reserves(br_df, Now)
                nxt == AfterValidate(day, "br", validate_transformed_data(out, "balancing_reserves"), "transform_dap")
            IN /\ br_df' = out
               /\ day' = nxt.day
               /\ pc' = nxt.pc
       ELSE /\ pc' = "transform_dap"
            /\ UNCHANGED <<br_df, day>>
    /\ UNCHANGED <<mode, start_date, end_date, dates, idx, success_count, error_count,
                   get_log, dap_df, br_success, success, exit_code,
                   interrupted, cleaned, init_log, processed>>
    /\ UNCHANGED <<lvars, tvars, cvars>>

\* _process_single_date 183-187
TransformDAP ==
    /\ pc = "transform_dap"
    /\ IF dap_df # << >>
       THEN LET out == transform_day_ahead_prices(dap_df, Now)
                nxt == AfterValidate(day, "dap", validate_transformed_data(out, "day_ahead_prices"), "load_br")
            IN /\ dap_df' = out
               /\ day' = nxt.day
               /\ pc' = nxt.pc
       ELSE /\ pc' = "load_br"
            /\ UNCHANGED <<dap_df, day>>
    /\ UNCHANGED <<mode, start_date, end_date, dates, idx, success_count, error_count,
                   get_log, br_df, br_success, success, exit_code,
                   interrupted, cleaned, init_log, processed>>
    /\ UNCHANGED <<lvars, tvars, cvars>>

\* key -> row of the most recent successful upsert that carried the key
OverwriteBR(last, rows) ==
    [k \in DOMAIN last \cup {BRKey(r) : r \in rows} |->
        IF \E r \in rows : BRKey(r) = k THEN CHOOSE r \in rows : BRKey(r) = k ELSE last[k]]

OverwriteDAP(last, rows) ==
    [k \in DOMAIN last \cup {DAPKey(r) : r \in rows} |->
        IF \E r \in rows : DAPKey(r) = k THEN CHOOSE r \in rows : DAPKey(r) = k ELSE last[k]]

UpTag(df, ok) == IF df = << >> THEN "empty" ELSE IF ok THEN "true" ELSE "false"

\* _process_single_date 190
LoadBR ==
    /\ pc = "load_br"
    /\ \E db_up \in BOOLEAN :
         LET res == load_balancing_reserves(br_table, br_df, db_up /\ schema)
         IN /\ br_table' = res.table
            /\ br_success' = res.ok
            /\ day' = [day EXCEPT !.br_up = UpTag(br_df, res.ok)]
            /\ last_br' = IF res.ok
                          THEN OverwriteBR(last_br, {StoredBR(br_df[i]) : i \in 1..Len(br_df)})
                          ELSE last_br
    /\ pc' = "load_dap"
    /\ UNCHANGED <<mode, start_date, end_date, dates, idx, success_count, error_count,
                   get_log, br_df, dap_df, success, exit_code,
                   interrupted, cleaned, init_log, processed>>
    /\ UNCHANGED <<engine, schema, dap_table, last_dap, last_load, tvars, cvars>>

\* variant: only the result of the prices upsert decides
date_result_prices_only(reserves_ok, dap_success) == dap_success

\* _process_single_date 193-200: `if not br_success or not dap_success:
\* return False`, else True
date_result(reserves_ok, dap_success) == reserves_ok /\ dap_success

\* _process_single_date 191-200
LoadDAP ==
    /\ pc = "load_dap"
    /\ \E db_up \in BOOLEAN :
         LET res == load_day_ahead_prices(dap_table, dap_df, db_up /\ schema)
             ok == date_result(br_success, res.ok)
         IN /\ dap_table' = res.table
            /\ day' = EndDate([day EXCEPT !.dap_up = UpTag(dap_df, res.ok)],
                              ok, IF ok THEN "ok" ELSE "load")
            /\ last_dap' = IF res.ok
                           THEN OverwriteDAP(last_dap, {StoredDAP(dap_df[i]) : i \in 1..Len(dap_df)})
                           ELSE last_dap
    /\ pc' = "date_done"
    /\ UNCHANGED <<mode, start_date, end_date, dates, idx, success_count, error_count,
                   get_log, br_df, dap_df, br_success, success, exit_code,
                   interrupted, cleaned, init_log, processed>>
    /\ UNCHANGED <<engine, schema, br_table, last_br, last_load, tvars, cvars>>

\* _process_single_date has returned and its frames are gone; day and get_log
\* keep the record of the date until the next one starts.
\* run_historical_etl 79-86 (count and go on) / run_daily_etl 124-130
DateDone ==
    /\ pc = "date_done"
    /\ br_df' = << >> /\ dap_df' = << >> /\ br_success' = FALSE
    /\ processed' = Append(processed, [date |-> day.date, ok |-> day.ok])
    /\ idx' = idx + 1
    /\ IF mode = "historical"
       THEN /\ success_count' = IF day.ok THEN success_count + 1 ELSE success_count
            /\ error_count' = IF day.ok THEN error_count ELSE error_count + 1
            /\ pc' = "loop"
            /\ UNCHANGED success
       ELSE /\ success' = IF day.ok THEN "true" ELSE "false"
            /\ pc' = "return"
            /\ UNCHANGED <<success_count, error_count>>
    /\ UNCHANGED <<mode, start_date, end_date, dates, get_log, day, exit_code,
                   interrupted, cleaned, init_log>>
    /\ UNCHANGED <<lvars, tvars, cvars>>

\* variant: the process exits with 0 whatever the run returned
exit_status_always_zero(run_success) == 0

\* main 291: 0 if success else 1
exit_status(run_success) == IF run_success = "true" THEN 0 ELSE 1

\* main 291: sys.exit(0 if success else 1)
Exit ==
    /\ pc = "return"
    /\ exit_code' = exit_status(success)
    /\ pc' = "finally"
    /\ UNCHANGED <<mode, start_date, end_date, dates, idx, success_count, error_count,
                   get_log, br_df, dap_df, br_success, day, success,
                   interrupted, cleaned, init_log, processed>>
    /\ UNCHANGED <<lvars, tvars, cvars>>

InRun == pc \in {"main", "init_test", "init_create", "loop", "fetch_br", "resp_br",
                 "fetch_dap", "resp_dap", "transform_br", "transform_dap",
                 "load_br", "load_dap", "date_done", "return"}

\* variant: the interrupt handler leaves without the finally clause
after_interrupt_no_finally == "exited"

\* main 293-300: the except KeyboardInterrupt clause calls sys.exit(1) under
\* the finally clause
after_interrupt == "finally"

\* a KeyboardInterrupt anywhere inside the try of main(): no except Exception
\* catches it on the way up, the frames of the run and of the date in
\* progress are unwound with their locals; main 293-295
KeyboardInterrupt ==
    /\ InRun
    /\ interrupted' = TRUE
    /\ exit_code' = 1
    /\ pc' = after_interrupt
    /\ dates' = << >> /\ idx' = 0 /\ success_count' = 0 /\ error_count' = 0
    /\ get_log' = << >> /\ br_df' = << >> /\ dap_df' = << >> /\ br_success' = FALSE
    /\ day' = NoDay /\ success' = "none"
    /\ UNCHANGED <<mode, start_date, end_date, cleaned, init_log, processed>>
    /\ UNCHANGED <<lvars, tvars, cvars>>

\* an Exception leaves the run: the body of run_daily_etl (112) or of
\* run_historical_etl (64) raised on an unparsable date and the error log of
\* the run's own except clause (133 / 97) raised in turn, so the run returns
\* nothing; main 296-298 logs and calls sys.exit(1) under the finally clause
UnexpectedException ==
    /\ pc = "main"
    /\ start_date = BadDate \/ end_date = BadDate
    /\ success' = "raised"
    /\ exit_code' = 1
    /\ pc' = "finally"
    /\ UNCHANGED <<mode, start_date, end_date, dates, idx, success_count, error_count,
                   get_log, br_df, dap_df, br_success, day,
                   interrupted, cleaned, init_log, processed>>
    /\ UNCHANGED <<lvars, tvars, cvars>>

\* variant: the engine is disposed of but the writer keeps it
close_connection_dispose_only(e) == e

\* load.close_connection
close_connection(e) == "None"

\* main 299-300, cleanup 238-244
Cleanup ==
    /\ pc = "finally"
    /\ engine' = close_connection(engine)
    /\ cleaned' = TRUE
    /\ pc' = "exited"
    /\ UNCHANGED <<mode, start_date, end_date, dates, idx, success_count, error_count,
                   get_log, br_df, dap_df, br_success, day, success, exit_code,
                   interrupted, init_log, processed>>
    /\ UNCHANGED <<schema, br_table, dap_table, last_br, last_dap, last_load, tvars, cvars>>

Next ==
    \/ RunStart
    \/ TestConnection
    \/ CreateTables
    \/ LoopNext
    \/ \E k \in {"br", "dap"} : HttpGet(k)
    \/ \E k \in {"br", "dap"} : HandleResponse(k)
    \/ TransformBR
    \/ TransformDAP
    \/ LoadBR
    \/ LoadDAP
    \/ DateDone
    \/ Exit
    \/ KeyboardInterrupt
    \/ UnexpectedException
    \/ Cleanup

Spec == Init /\ [][Next]_vars

FairSpec == Spec /\ WF_vars(Next)

\* ------------------------------------------------- the writer on its own
SeqsUpTo(S, n) == UNION {[1..k -> S] : k \in 0..n}

Cet(h) == [wall |-> h, tz |-> "cet"]
Naive(h) == [wall |-> h, tz |-> "naive"]

LoadBR_Row(dt, p, v, c) ==
    [country_code |-> "DE", datetime_utc |-> dt, product |-> p,
     volume_mw |-> Num(v), price_eur_per_mw |-> None, created_at |-> c]
LoadDAP_Row(dt, v, c) ==
    [country_code |-> "DE", datetime_utc |-> dt, price_eur_per_mwh |-> v, created_at |-> c]

\* rows a caller may pass to load_balancing_reserves: two keys, the first
\* also written as an aware +01:00 datetime, and a row without product
LoadRowsBR ==
    { LoadBR_Row(Utc(1), "Primary Reserve", 5, 1), LoadBR_Row(Utc(1), "Primary Reserve", 7, 2),
      LoadBR_Row(Cet(2), "Primary Reserve", 9, 1), LoadBR_Row(Utc(2), "Primary Reserve", 5, 1),
      LoadBR_Row(Utc(1), NULL, 5, 1) }

\* rows a caller may pass to load_day_ahead_prices: one key with two prices,
\* a second key, and a frame that was never stamped with created_at
LoadRowsDAP ==
    { LoadDAP_Row(Utc(1), Num(3), 1), LoadDAP_Row(Utc(1), Num(4), 2),
      LoadDAP_Row(Utc(2), Num(3), NoColumn) }

InitLoad ==
    /\ PipelineIdle
    /\ LoaderInit
    /\ TransformerIdle
    /\ ClientIdle

\* DatabaseLoader.create_tables
L_create_tables ==
    /\ \E created \in BOOLEAN :
         /\ schema' = (schema \/ created)
         /\ engine' = "engine"
    /\ last_load' = [NoLoad EXCEPT !.kind = "create_tables"]
    /\ UNCHANGED <<br_table, dap_table, last_br, last_dap>>
    /\ UNCHANGED <<pvars, tvars, cvars>>

\* DatabaseLoader.load_balancing_reserves
L_load_balancing_reserves ==
    /\ \E df \in SeqsUpTo(LoadRowsBR, MaxBatch), db_up \in BOOLEAN :
         LET res == load_balancing_reserves(br_table, df, db_up /\ schema)
         IN /\ br_table' = res.table
            /\ last_br' = IF res.ok
                          THEN OverwriteBR(last_br, {StoredBR(df[i]) : i \in 1..Len(df)})
                          ELSE last_br
            /\ last_load' = [kind |-> "br", df |-> IF res.ok THEN df ELSE << >>, ok |-> res.ok,
                              repeat |-> last_load = [kind |-> "br", df |-> df, ok |-> TRUE, repeat |-> FALSE]]
            /\ engine' = IF validate_dataframe(df, required_columns_br) THEN "engine" ELSE engine
    /\ UNCHANGED <<schema, dap_table, last_dap>>
    /\ UNCHANGED <<pvars, tvars, cvars>>

\* DatabaseLoader.load_day_ahead_prices
L_load_day_ahead_prices ==
    /\ \E df \in SeqsUpTo(LoadRowsDAP, MaxBatch), db_up \in BOOLEAN :
         LET res == load_day_ahead_prices(dap_table, df, db_up /\ schema)
         IN /\ dap_table' = res.table
            /\ last_dap' = IF res.ok
                           THEN OverwriteDAP(last_dap, {StoredDAP(df[i]) : i \in 1..Len(df)})
                           ELSE last_dap
            /\ last_load' = [kind |-> "dap", df |-> IF res.ok THEN df ELSE << >>, ok |-> res.ok,
                              repeat |-> last_load = [kind |-> "dap", df |-> df, ok |-> TRUE, repeat |-> FALSE]]
            /\ engine' = IF validate_dataframe(df, required_columns_dap) THEN "engine" ELSE engine
    /\ UNCHANGED <<schema, br_table, last_br>>
    /\ UNCHANGED <<pvars, tvars, cvars>>

\* DatabaseLoader.close_connection
L_close_connection ==
    /\ engine' = close_connection(engine)
    /\ last_load' = [NoLoad EXCEPT !.kind = "close"]
    /\ UNCHANGED <<schema, br_table, dap_table, last_br, last_dap>>
    /\ UNCHANGED <<pvars, tvars, cvars>>

NextLoad ==
    \/ L_create_tables
    \/ L_load_balancing_reserves
    \/ L_load_day_ahead_prices
    \/ L_close_connection

SpecLoad == InitLoad /\ [][NextLoad]_vars

\* -------------------------------------------- the transformer on its own
TBR_Row(c, dt, p, v) ==
    [country_code |-> c, datetime_utc |-> dt, product |-> p,
     volume_mw |-> v, price_eur_per_mw |-> None, created_at |-> NoColumn]
TDAP_Row(c, dt, v) ==
    [country_code |-> c, datetime_utc |-> dt, price_eur_per_mwh |-> v, created_at |-> NoColumn]

Bad == [t |-> "bad", v |-> 0]

\* raw reserve rows: one key with every kind of amount, the same instant
\* written as a naive Berlin time, other keys, and each missing key column
RawRowsBR ==
    { TBR_Row("DE", Utc(1), "Primary Reserve", v) :
          v \in {Num(5), Num(7), Str(9), Str(0), Num(-2), None, Bad} }
    \cup { TBR_Row("DE", Naive(2), "Primary Reserve", Num(3)),
           TBR_Row("DE", Utc(0), "Primary Reserve", Num(5)),
           TBR_Row("DE", Utc(1), "Secondary Reserve", Num(5)),
           TBR_Row("DE", NaT, "Primary Reserve", Num(5)),
           TBR_Row(NULL, Utc(1), "Primary Reserve", Num(5)),
           TBR_Row("DE", Utc(1), NULL, Num(5)) }

\* raw price rows: one key with every kind of price, a second key, and each
\* missing key column
RawRowsDAP ==
    { TDAP_Row("DE", Utc(1), v) :
          v \in {Num(3), Str(4), Str(0), Num(0), Num(-5), Str(-5), None, Bad} }
    \cup { TDAP_Row("DE", Cet(2), Num(6)),
           TDAP_Row("DE", Utc(0), Num(3)),
           TDAP_Row("DE", NaT, Num(3)),
           TDAP_Row(NULL, Utc(1), Num(3)) }

Clock == 1..2

InitT ==
    /\ PipelineIdle
    /\ LoaderInit
    /\ t_pc = "in"
    /\ t_raw \in [kind : {"br"}, df : SeqsUpTo(RawRowsBR, MaxRaw)]
                 \cup [kind : {"dap"}, df : SeqsUpTo(RawRowsDAP, MaxRaw)]
    /\ t_out = << >>
    /\ t_frame = "none" /\ t_again = << >> /\ t_valid = "none"
    /\ ClientIdle

\* DataTransformer.transform_balancing_reserves
T_transform_balancing_reserves ==
    /\ t_pc = "in" /\ t_raw.kind = "br"
    /\ \E now \in Clock : t_out' = transform_balancing_reserves(t_raw.df, now)
    /\ t_raw' = [t_raw EXCEPT !.df = input_after_transform_br(@)]
    /\ t_frame' = returned_frame(t_raw.df)
    /\ t_pc' = "out"
    /\ UNCHANGED <<t_again, t_valid, pvars, lvars, cvars>>

\* DataTransformer.transform_day_ahead_prices
T_transform_day_ahead_prices ==
    /\ t_pc = "in" /\ t_raw.kind = "dap"
    /\ \E now \in Clock : t_out' = transform_day_ahead_prices(t_raw.df, now)
    /\ t_raw' = [t_raw EXCEPT !.df = input_after_transform_dap(@)]
    /\ t_frame' = returned_frame(t_raw.df)
    /\ t_pc' = "out"
    /\ UNCHANGED <<t_again, t_valid, pvars, lvars, cvars>>

\* the transform of the frame's kind called on its own output, at a later time
T_transform_again ==
    /\ t_pc = "out"
    /\ \E now \in Clock :
         /\ now >= IF t_out = << >> THEN 1 ELSE t_out[1].created_at
         /\ t_again' = IF t_raw.kind = "br" THEN transform_balancing_reserves(t_out, now)
                                            ELSE transform_day_ahead_prices(t_out, now)
    /\ t_out' = IF t_raw.kind = "br" THEN input_after_transform_br(t_out)
                                     ELSE input_after_transform_dap(t_out)
    /\ t_frame' = returned_frame(t_out)
    /\ t_pc' = "again"
    /\ UNCHANGED <<t_raw, t_valid, pvars, lvars, cvars>>

NextT ==
    \/ T_transform_balancing_reserves
    \/ T_transform_day_ahead_prices
    \/ T_transform_again

SpecT == InitT /\ [][NextT]_vars

\* ---------------------------------------------- the validator on its own
\* rows of frames a caller may hand to validate_transformed_data: stamped
\* reserve and price rows tagged UTC, +01:00, naive and NaT, a frame never
\* stamped with created_at, and frames that lack product, the price or the
\* datetime column
ValidatedRows ==
    { LoadBR_Row(dt, "Primary Reserve", 5, 1) : dt \in {Utc(1), Utc(2), Cet(2), Naive(1), NaT} }
    \cup { LoadBR_Row(Utc(1), "Primary Reserve", 5, NoColumn),
           [country_code |-> "DE", datetime_utc |-> Utc(1), volume_mw |-> Num(5),
            price_eur_per_mw |-> None, created_at |-> 1] }
    \cup { LoadDAP_Row(dt, Num(3), 1) : dt \in {Utc(1), Cet(2), NaT} }
    \cup { [country_code |-> "DE", datetime_utc |-> Utc(1), created_at |-> 1],
           [country_code |-> "DE", price_eur_per_mwh |-> Num(3), created_at |-> 1] }

\* one frame: every row has the same columns
OneFrame(df) ==
    \A i, j \in 1..Len(df) :
        /\ DOMAIN df[i] = DOMAIN df[j]
        /\ (df[i].created_at = NoColumn <=> df[j].created_at = NoColumn)

DataTypes == {"balancing_reserves", "day_ahead_prices", "prices"}

InitV ==
    /\ PipelineIdle
    /\ LoaderInit
    /\ t_pc = "in"
    /\ t_raw \in {f \in [kind : DataTypes, df : SeqsUpTo(ValidatedRows, MaxRaw)] : OneFrame(f.df)}
    /\ t_out = << >>
    /\ t_frame = "none" /\ t_again = << >> /\ t_valid = "none"
    /\ ClientIdle

\* DataTransformer.validate_transformed_data
V_validate_transformed_data ==
    /\ t_pc = "in"
    /\ t_valid' = IF validate_transformed_data(t_raw.df, t_raw.kind) THEN "true" ELSE "false"
    /\ t_pc' = "validated"
    /\ UNCHANGED <<t_raw, t_out, t_frame, t_again, pvars, lvars, cvars>>

NextV == V_validate_transformed_data

SpecV == InitV /\ [][NextV]_vars

\* ------------------------------------------------- the client on its own
\* A value of the parsed XML is a record with a shape: "absent" (the key is
\* not there), "null" (None, an empty element), "text" (a str), "mapping",
\* "list". A point is a mapping that has the key position or not; its cells
\* are Str(n) (a string int()/float() reads as n), Bad (a string they
\* reject) or None. A point list of one is what a bare point is wrapped to.
Null == [shape |-> "null"]
Text == [shape |-> "text"]

ApiKey == "entsoe_api_key"

Point(position, value) == [position |-> position, quantity |-> value, price_amount |-> value]
PointWithoutPosition(value) == [quantity |-> value, price_amount |-> value]

\* <Point/>: an empty element, which xmltodict gives as None
NullPoint == [shape |-> "null"]

PointPool ==
    { Point(Str(1), Str(5)), Point(Str(2), Str(7)), Point(Bad, Str(5)), Point(None, Str(5)),
      PointWithoutPosition(Str(5)), NullPoint }

\* Period.timeInterval.start: '...T00:00Z', '...T01:00+01:00', a string
\* fromisoformat rejects, or no start at all
StartZ(h) == [form |-> "Z", wall |-> h]
StartOffset(h) == [form |-> "+01:00", wall |-> h]
StartBad == [form |-> "bad", wall |-> 0]
StartAbsent == [form |-> "absent", wall |-> 0]
Starts == {StartZ(0), StartOffset(1), StartBad, StartAbsent}

Series(businessType, start, points) ==
    [shape |-> "mapping", businessType |-> businessType, start |-> start, points |-> points]

SeriesPool == {Series("A95", st, pts) : st \in Starts, pts \in SeqsUpTo(PointPool, MaxPoints)}

PlainSeries ==
    { Series("A96", StartZ(0), <<Point(Str(1), Str(5))>>),
      Series("A96", StartZ(0), <<Point(Str(1), Str(5)), Point(Str(2), Str(7))>>) }

\* businessType codes a series may carry: the five of the mapping, the empty
\* string (also what series.get('businessType', '') gives without the key)
\* and a code outside the mapping
BusinessTypes == {"A95", "A96", "A97", "A98", "A99", "", "A01"}

TypedSeries == {Series(bt, StartZ(0), <<Point(Str(1), Str(5))>>) : bt \in BusinessTypes}

InsertAt(seq, k, e) == SubSeq(seq, 1, k - 1) \o <<e>> \o SubSeq(seq, k, Len(seq))

\* TimeSeries lists: any series of the pool at any place among plain ones
TimeSeriesLists ==
    { << >> } \cup
    { InsertAt(plain, k, s) : <<plain, k, s>> \in
        { x \in SeqsUpTo(PlainSeries, MaxSeries - 1) \X (1..MaxSeries) \X SeriesPool :
            x[2] <= Len(x[1]) + 1 } }

List(items) == [shape |-> "list", items |-> items]
MarketDocument(ts) == [shape |-> "mapping", TimeSeries |-> ts]
Document(pmd) == [shape |-> "mapping", Publication_MarketDocument |-> pmd]

\* documents xmltodict.parse may hand back
Documents ==
    { Document(pmd) : pmd \in
        {Absent, Null, Text}
        \cup { MarketDocument(ts) : ts \in {Absent, Null} \cup SeriesPool
                                            \cup {List(l) : l \in TimeSeriesLists}
                                            \cup TypedSeries
                                            \cup {List(<<a, b>>) : a, b \in TypedSeries} } }

\* variant: a bare series is not wrapped
extract_time_series_unwrapped(data) ==
    IF data.Publication_MarketDocument.shape # "mapping" THEN << >>
    ELSE IF data.Publication_MarketDocument.TimeSeries.shape = "list"
         THEN data.Publication_MarketDocument.TimeSeries.items
         ELSE << >>

\* data.get('Publication_MarketDocument', {}).get('TimeSeries', []): .get on
\* None or a str raises AttributeError, which the except turns into [];
\* whatever is not a list is wrapped into a list of one
extract_time_series(data) ==
    LET publication_market_document ==
            IF data.Publication_MarketDocument = Absent
            THEN MarketDocument(Absent)
            ELSE data.Publication_MarketDocument
    IN IF publication_market_document.shape # "mapping" THEN << >>
       ELSE LET time_series ==
                    IF publication_market_document.TimeSeries = Absent
                    THEN List(<< >>)
                    ELSE publication_market_document.TimeSeries
            IN IF time_series.shape = "list" THEN time_series.items ELSE <<time_series>>

\* int(point.get('position', 0)); None has no .get
int_position(point) ==
    IF "shape" \in DOMAIN point THEN [raised |-> "AttributeError", v |-> 0]
    ELSE IF "position" \notin DOMAIN point THEN [raised |-> "no", v |-> 0]
    ELSE CASE point.position.t = "str" -> [raised |-> "no", v |-> point.position.v]
           [] point.position.t = "bad" -> [raised |-> "ValueError", v |-> 0]
           [] point.position.t = "none" -> [raised |-> "TypeError", v |-> 0]

\* datetime.fromisoformat(period_start.replace('Z', '+00:00'))
fromisoformat(start) ==
    CASE start.form = "Z" -> Utc(start.wall)
      [] start.form = "+01:00" -> Cet(start.wall)

\* variant: the mapping knows the first three codes only
product_mapping_short(business_type) ==
    CASE business_type = "A95" -> "Primary Reserve"
      [] business_type = "A96" -> "Secondary Reserve"
      [] business_type = "A97" -> "Tertiary Reserve"
      [] OTHER -> business_type

\* _extract_product_from_business_type: product_mapping.get(business_type,
\* business_type)
product_mapping(business_type) ==
    CASE business_type = "A95" -> "Primary Reserve"
      [] business_type = "A96" -> "Secondary Reserve"
      [] business_type = "A97" -> "Tertiary Reserve"
      [] business_type = "A98" -> "Manual Frequency Restoration Reserve"
      [] business_type = "A99" -> "Automatic Frequency Restoration Reserve"
      [] OTHER -> business_type

\* variant: the offset is the position itself
timedelta_hours_position(position) == position

\* pd.Timedelta(hours=position-1)
timedelta_hours(position) == position - 1

\* the body of `for point in points`: "record", "skipped" (the inner except
\* caught a ValueError), "nothing" (no period start) or "TypeError" /
\* "AttributeError" (not caught by the inner except)
parse_point(series, point, kind) ==
    LET position == int_position(point)
        value == safe_float(IF kind = "br" THEN point.quantity ELSE point.price_amount)
    IN IF position.raised = "ValueError" THEN [outcome |-> "skipped"]
       ELSE IF position.raised \in {"TypeError", "AttributeError"} THEN [outcome |-> position.raised]
       ELSE IF series.start.form = "absent" THEN [outcome |-> "nothing"]
       ELSE IF series.start.form = "bad" THEN [outcome |-> "skipped"]
       ELSE LET start_dt == fromisoformat(series.start)
                dt == [start_dt EXCEPT !.wall = @ + timedelta_hours(position.v)]
            IN [outcome |-> "record",
                rec |-> IF kind = "br"
                        THEN TBR_Row("DE", dt, product_mapping(series.businessType), value)
                        ELSE TDAP_Row("DE", dt, value)]

\* variant: the inner except catches every exception, the loop goes on
RECURSIVE parse_points_goes_on(_, _, _)
parse_points_goes_on(series, points, kind) ==
    IF points = << >> THEN << >>
    ELSE LET r == parse_point(series, Head(points), kind)
         IN (IF r.outcome = "record" THEN <<r.rec>> ELSE << >>)
            \o parse_points_goes_on(series, Tail(points), kind)

\* `for point in points` inside the try of one series: an exception the
\* inner except does not catch ends the series, the records appended so far
\* stay
RECURSIVE parse_points(_, _, _)
parse_points(series, points, kind) ==
    IF points = << >> THEN << >>
    ELSE LET r == parse_point(series, Head(points), kind)
         IN IF r.outcome \in {"TypeError", "AttributeError"} THEN << >>
            ELSE (IF r.outcome = "record" THEN <<r.rec>> ELSE << >>)
                 \o parse_points(series, Tail(points), kind)

\* _parse_balancing_reserves / _parse_day_ahead_prices: `for series in
\* time_series`; series.get on None raises AttributeError, caught per series
RECURSIVE parse_time_series(_, _)
parse_time_series(time_series, kind) ==
    IF time_series = << >> THEN << >>
    ELSE (IF Head(time_series).shape # "mapping" THEN << >>
          ELSE parse_points(Head(time_series), Head(time_series).points, kind))
         \o parse_time_series(Tail(time_series), kind)

\* logging: a message reaches the handler when its level is at or above
\* settings.log_level
LevelNo(level) == CASE level = "DEBUG" -> 10 [] level = "INFO" -> 20
                    [] level = "WARNING" -> 30 [] level = "ERROR" -> 40
Message(level, line, mentions) == [level |-> level, line |-> line, mentions |-> mentions]
Emitted(msgs, configured) == SelectSeq(msgs, LAMBDA m : LevelNo(m.level) >= LevelNo(configured))

InitC ==
    /\ PipelineIdle
    /\ LoaderInit
    /\ TransformerIdle
    /\ c_pc = "start"
    /\ c_kind \in {"br", "dap"}
    /\ c_level \in {"DEBUG", "INFO"}
    /\ c_requests = << >> /\ c_log = << >>
    /\ c_doc = Absent /\ c_series = << >> /\ c_records = << >>

\* get_* up to the return of _make_request: the securityToken is put into
\* params, params are logged, requests.get is attempted under
\* retry_function, then raise_for_status and xmltodict.parse. The text of an
\* HTTPError ends with 'for url: <the request URL>', query string included
C_make_request ==
    /\ c_pc = "start"
    /\ \E failures \in 0..stop_after_attempt, body \in {"2xx", "error_status", "bad_xml"} :
         LET attempts == IF failures >= stop_after_attempt THEN stop_after_attempt
                         ELSE failures + 1
             params == [documentType |-> IF c_kind = "br" THEN "A73" ELSE "A44",
                        securityToken |-> ApiKey]
             before == << Message("INFO", IF c_kind = "br" THEN 76 ELSE 120, {}),
                          Message("DEBUG", 44, {params.securityToken}) >>
             failed == IF c_kind = "br" THEN 107 ELSE 151
             after == IF failures >= stop_after_attempt
                      THEN << Message("ERROR", 63, {}), Message("ERROR", failed, {}) >>
                      ELSE IF body = "error_status"
                      THEN << Message("ERROR", 60, {params.securityToken}),
                              Message("ERROR", failed, {params.securityToken}) >>
                      ELSE IF body = "bad_xml"
                      THEN << Message("ERROR", 63, {}), Message("ERROR", failed, {}) >>
                      ELSE << >>
         IN /\ c_requests' = c_requests \o [i \in 1..attempts |-> params]
            /\ c_log' = c_log \o Emitted(before \o after, c_level)
            /\ IF failures < stop_after_attempt /\ body = "2xx"
               THEN /\ c_doc' \in Documents
                    /\ c_pc' = "fetched"
               ELSE /\ c_doc' = c_doc
                    /\ c_pc' = "raised"
    /\ UNCHANGED <<c_kind, c_level, c_series, c_records, pvars, lvars, tvars>>

\* get_* : time_series = self._extract_time_series(data, ...)
C_extract_time_series ==
    /\ c_pc = "fetched"
    /\ c_series' = extract_time_series(c_doc)
    /\ c_log' = c_log \o Emitted(<<Message("DEBUG", 174, {})>>, c_level)
    /\ c_pc' = "extracted"
    /\ UNCHANGED <<c_kind, c_level, c_requests, c_doc, c_records, pvars, lvars, tvars>>

\* get_* : `if not time_series: return pd.DataFrame()`, else the parser
C_parse ==
    /\ c_pc = "extracted"
    /\ c_records' = parse_time_series(c_series, c_kind)
    /\ c_log' = c_log \o Emitted(IF c_series = << >>
                                 THEN <<Message("WARNING", IF c_kind = "br" THEN 97 ELSE 141, {})>>
                                 ELSE <<Message("INFO", IF c_kind = "br" THEN 103 ELSE 147, {})>>,
                                 c_level)
    /\ c_pc' = "returned"
    /\ UNCHANGED <<c_kind, c_level, c_requests, c_doc, c_series, pvars, lvars, tvars>>

NextC ==
    \/ C_make_request
    \/ C_extract_time_series
    \/ C_parse

SpecC == InitC /\ [][NextC]_vars

\* ================================================================ claims
DateCount == IF end_date >= start_date THEN end_date - start_date + 1 ELSE 0
InitPassed == Len(init_log) = 2 /\ init_log[2].r = "true"
RunReturned == success # "none" /\ ~interrupted

\* C1: in a historical run that passed database initialization the dates
\* processed are start_date, start_date + 1, ... in that order, each once,
\* and when the run returns every date up to end_date has been processed,
\* whatever the outcome of the earlier dates.
C1_EveryDateOnceInOrder ==
    mode = "historical" =>
        /\ \A i \in 1..Len(processed) : processed[i].date = start_date + i - 1
        /\ (InitPassed /\ RunReturned => Len(processed) = DateCount)

C1_Witness ==
    /\ mode = "historical" /\ pc = "exited" /\ ~interrupted
    /\ Len(processed) = 3
    /\ ~processed[1].ok /\ ~processed[2].ok /\ processed[3].ok

\* C2: test_connection is the first writer call and create_tables the second,
\* made only after test_connection returned True; once either has returned
\* False or raised, the run returns failure and nothing is fetched,
\* transformed or upserted for any date.
C2_InitFailureIsFatal ==
    /\ Len(init_log) <= 2
    /\ \A i \in 1..Len(init_log) :
         init_log[i].call = IF i = 1 THEN "test_connection" ELSE "create_tables"
    /\ (Len(init_log) = 2 => init_log[1].r = "true")
    /\ (~InitPassed => /\ processed = << >> /\ day = NoDay /\ get_log = << >>
                       /\ br_table = {} /\ dap_table = {})
    /\ ((\E i \in 1..Len(init_log) : init_log[i].r # "true") =>
           /\ pc \in {"return", "finally", "exited"}
           /\ success = "false" \/ interrupted
           /\ exit_code \in {-1, 1})

C2_Witness ==
    /\ pc = "exited" /\ exit_code = 1 /\ ~interrupted
    /\ init_log = <<[call |-> "test_connection", r |-> "true"],
                    [call |-> "create_tables", r |-> "raise"]>>

\* C3: every execution of main() reaches cleanup, which leaves the writer
\* without an engine, and from the moment of a keyboard interrupt no date is
\* started or finished and no table is written.
C3_CleanupAlwaysRuns ==
    /\ <>(pc = "exited" /\ cleaned /\ engine = "None")
    /\ [][interrupted => /\ processed' = processed /\ day' = day
                         /\ br_table' = br_table /\ dap_table' = dap_table]_vars

C3_Witness ==
    /\ pc = "exited" /\ cleaned /\ interrupted
    /\ mode = "historical" /\ Len(processed) = 1 /\ end_date = 3 /\ start_date = 1

\* C4: in a historical run every processed date has incremented exactly one
\* of the two counters; at finalization their sum is the number of dates of
\* the range and the run returns True iff error_count is 0.
C4_CountsAndResult ==
    (mode = "historical" /\ ~interrupted) =>
        /\ success_count = Cardinality({i \in 1..Len(processed) : processed[i].ok})
        /\ error_count = Cardinality({i \in 1..Len(processed) : ~processed[i].ok})
        /\ (InitPassed /\ RunReturned =>
               /\ success_count + error_count = DateCount
               /\ (success = "true" <=> error_count = 0))

C4_Witness ==
    /\ mode = "historical" /\ pc = "exited" /\ ~interrupted
    /\ Len(processed) = 3
    /\ processed[1].ok /\ ~processed[2].ok /\ processed[3].ok
    /\ success_count = 2 /\ error_count = 1 /\ success = "false" /\ exit_code = 1

\* C5: a non-empty frame reaches the writer only transformed and after
\* validate_transformed_data returned True for it; when validation fails for
\* either kind nothing is upserted for that date, the date is recorded as
\* failed, and the run still processes every later date.
C5_ValidatedBeforeUpsert ==
    /\ (day.br_up \in {"true", "false"} => day.br_val = "true")
    /\ (day.dap_up \in {"true", "false"} => day.dap_val = "true")
    /\ (pc \in {"load_br", "load_dap"} =>
           /\ (br_df # << >> => day.br_val = "true" /\ \A i \in 1..Len(br_df) : br_df[i].created_at = Now)
           /\ (dap_df # << >> => day.dap_val = "true" /\ \A i \in 1..Len(dap_df) : dap_df[i].created_at = Now))
    /\ (day.br_val = "false" \/ day.dap_val = "false" =>
           /\ day.br_up = "none" /\ day.dap_up = "none"
           /\ ~day.ok
           /\ pc \notin {"load_br", "load_dap"}
           /\ (pc = "loop" => ~processed[Len(processed)].ok))
    /\ (mode = "historical" /\ InitPassed /\ RunReturned => Len(processed) = Len(dates))

C5_Witness ==
    /\ mode = "historical" /\ pc = "date_done" /\ start_date = 1 /\ end_date = 3
    /\ day.date = 1 /\ day.br_val = "true" /\ day.dap_val = "false"

\* C8: one fetch makes at most 3 GET attempts and none after an attempt that
\* got a response; after 3 failed attempts the date ends as failed, is counted
\* as an error, and the run goes on to the remaining dates.
Exhausted == Len(get_log) = 3 /\ get_log[3] = "exception"

C8_BoundedRetry ==
    /\ Len(get_log) <= 3
    /\ \A i \in 1..(Len(get_log) - 1) : get_log[i] = "exception"
    /\ (pc \in {"fetch_br", "fetch_dap"} =>
           Len(get_log) < 3 /\ \A i \in 1..Len(get_log) : get_log[i] = "exception")
    /\ (Exhausted =>
           /\ pc \in {"date_done", "loop", "fetch_br", "return", "finally", "exited"}
           /\ ~day.ok /\ day.br_up = "none" /\ day.dap_up = "none"
           /\ (pc # "date_done" => ~processed[Len(processed)].ok)
           /\ (pc # "date_done" /\ mode = "historical" => error_count >= 1))
    /\ (mode = "historical" /\ InitPassed /\ RunReturned => Len(processed) = DateCount)

C8_Witness ==
    /\ mode = "historical" /\ pc = "loop" /\ Exhausted
    /\ idx = 1 /\ Len(dates) = 3 /\ error_count = 1

\* C6: each table holds at most one row per natural key, and the row stored
\* under a key is, column for column, the row of the most recent successful
\* upsert whose batch contained that key.
C6_LastWriterWins ==
    /\ \A t1, t2 \in br_table : BRKey(t1) = BRKey(t2) => t1 = t2
    /\ \A t1, t2 \in dap_table : DAPKey(t1) = DAPKey(t2) => t1 = t2
    /\ {BRKey(t) : t \in br_table} = DOMAIN last_br
    /\ {DAPKey(t) : t \in dap_table} = DOMAIN last_dap
    /\ \A k \in DOMAIN last_br : last_br[k] \in br_table
    /\ \A k \in DOMAIN last_dap : last_dap[k] \in dap_table

C6_Witness ==
    /\ last_load.ok /\ last_load.kind = "br"
    /\ last_load.df = <<LoadBR_Row(Cet(2), "Primary Reserve", 9, 1)>>
    /\ br_table = { LoadBR_Row(Utc(1), "Primary Reserve", 9, 1),
                    LoadBR_Row(Utc(2), "Primary Reserve", 5, 1) }
    /\ dap_table = { LoadDAP_Row(Utc(1), Num(4), 2) }

\* C7: when a batch has just been upserted successfully, upserting it again
\* succeeds and leaves its table as it is, and the table holds exactly one
\* row for each natural key of the batch, carrying the values of the batch.
CarriesBR(table, df) ==
    \A i \in 1..Len(df) :
        LET hits == {t \in table : BRKey(t) = BRKey(StoredBR(df[i]))}
        IN /\ Cardinality(hits) = 1
           /\ \A t \in hits : /\ t.volume_mw = df[i].volume_mw
                              /\ t.price_eur_per_mw = df[i].price_eur_per_mw
                              /\ t.created_at = df[i].created_at

CarriesDAP(table, df) ==
    \A i \in 1..Len(df) :
        LET hits == {t \in table : DAPKey(t) = DAPKey(StoredDAP(df[i]))}
        IN /\ Cardinality(hits) = 1
           /\ \A t \in hits : /\ t.price_eur_per_mwh = df[i].price_eur_per_mwh
                              /\ t.created_at = df[i].created_at

C7_UpsertIdempotent ==
    /\ (last_load.ok /\ last_load.kind = "br" =>
           LET again == load_balancing_reserves(br_table, last_load.df, TRUE)
           IN again.ok /\ again.table = br_table /\ CarriesBR(br_table, last_load.df))
    /\ (last_load.ok /\ last_load.kind = "dap" =>
           LET again == load_day_ahead_prices(dap_table, last_load.df, TRUE)
           IN again.ok /\ again.table = dap_table /\ CarriesDAP(dap_table, last_load.df))

C7_Witness ==
    /\ last_load.ok /\ last_load.repeat /\ last_load.kind = "dap"
    /\ last_load.df = <<LoadDAP_Row(Utc(1), Num(4), 2)>>
    /\ br_table # {}

\* the instant and the value a raw row stands for
InstantKeyBR(r) == <<r.country_code, normalize_utc_time(r.datetime_utc), r.product>>
InstantKeyDAP(r) == <<r.country_code, normalize_utc_time(r.datetime_utc)>>
HasKeyBR(r) == r.country_code # NULL /\ r.datetime_utc # NaT /\ r.product # NULL
HasKeyDAP(r) == r.country_code # NULL /\ r.datetime_utc # NaT
Meant(cell) == IF cell.t = "str" THEN Num(cell.v) ELSE IF cell.t = "bad" THEN None ELSE cell

\* C9 as stated: whenever two raw rows (and no third) share a natural key and
\* differ in value, the output has exactly one row with that key and it
\* carries the value of the later-listed of the two.
C9_AsStated ==
    t_pc = "out" =>
        \A i, j \in 1..Len(t_raw.df) :
            LET df == t_raw.df
            IN IF t_raw.kind = "br"
               THEN (/\ i < j /\ HasKeyBR(df[i]) /\ InstantKeyBR(df[i]) = InstantKeyBR(df[j])
                     /\ Meant(df[i].volume_mw) # Meant(df[j].volume_mw)
                     /\ \A k \in 1..Len(df) : k \notin {i, j} => InstantKeyBR(df[k]) # InstantKeyBR(df[i]))
                    => LET hits == {n \in 1..Len(t_out) : BRKey(t_out[n]) = InstantKeyBR(df[j])}
                       IN /\ Cardinality(hits) = 1
                          /\ \A n \in hits : t_out[n].volume_mw = Meant(df[j].volume_mw)
               ELSE (/\ i < j /\ HasKeyDAP(df[i]) /\ InstantKeyDAP(df[i]) = InstantKeyDAP(df[j])
                     /\ Meant(df[i].price_eur_per_mwh) # Meant(df[j].price_eur_per_mwh)
                     /\ \A k \in 1..Len(df) : k \notin {i, j} => InstantKeyDAP(df[k]) # InstantKeyDAP(df[i]))
                    => LET hits == {n \in 1..Len(t_out) : DAPKey(t_out[n]) = InstantKeyDAP(df[j])}
                       IN /\ Cardinality(hits) = 1
                          /\ \A n \in hits : t_out[n].price_eur_per_mwh = Meant(df[j].price_eur_per_mwh)

\* C9 amended: for every natural key, the output has no row with that key
\* when no raw row with that key passes the invalid-record filter, and
\* otherwise exactly one, carrying the value of the last-listed raw row with
\* that key that passes the filter.
KeptBR(r) == BRValid([r EXCEPT !.volume_mw = safe_float(@)])
KeptDAP(r) == DAPValid([r EXCEPT !.price_eur_per_mwh = safe_float(@)])

C9_LastKeptRowWins ==
    t_pc = "out" =>
        LET df == t_raw.df
        IN \A i \in 1..Len(df) :
            IF t_raw.kind = "br"
            THEN LET same == {j \in 1..Len(df) : KeptBR(df[j]) /\ InstantKeyBR(df[j]) = InstantKeyBR(df[i])}
                     hits == {n \in 1..Len(t_out) : BRKey(t_out[n]) = InstantKeyBR(df[i])}
                 IN IF same = {} THEN hits = {}
                    ELSE /\ Cardinality(hits) = 1
                         /\ \A n \in hits, j \in same :
                              (\A k \in same : k <= j) => t_out[n].volume_mw = Meant(df[j].volume_mw)
            ELSE LET same == {j \in 1..Len(df) : KeptDAP(df[j]) /\ InstantKeyDAP(df[j]) = InstantKeyDAP(df[i])}
                     hits == {n \in 1..Len(t_out) : DAPKey(t_out[n]) = InstantKeyDAP(df[i])}
                 IN IF same = {} THEN hits = {}
                    ELSE /\ Cardinality(hits) = 1
                         /\ \A n \in hits, j \in same :
                              (\A k \in same : k <= j) => t_out[n].price_eur_per_mwh = Meant(df[j].price_eur_per_mwh)

C9_Witness ==
    /\ t_pc = "out" /\ t_raw.kind = "br"
    /\ t_raw.df = << TBR_Row("DE", Utc(1), "Primary Reserve", Num(5)),
                     TBR_Row("DE", Utc(1), "Primary Reserve", Num(7)),
                     TBR_Row("DE", Utc(1), "Primary Reserve", None) >>
    /\ Len(t_out) = 1 /\ t_out[1].volume_mw = Num(7)

\* C10: every row transform_balancing_reserves returns has a datetime, a
\* country code, a reserve type and an amount above 0; no two of them share
\* (country, datetime, reserve type); and their keys are exactly the keys of
\* the input rows that have all four.
AmountAboveZero(cell) == cell.t \in {"num", "str"} /\ cell.v > 0
InputRowOK(r) == HasKeyBR(r) /\ AmountAboveZero(r.volume_mw)

C10_ReservesOutputClean ==
    (t_pc = "out" /\ t_raw.kind = "br") =>
        /\ \A n \in 1..Len(t_out) :
             /\ t_out[n].datetime_utc # NaT /\ t_out[n].country_code # NULL
             /\ t_out[n].product # NULL
             /\ t_out[n].volume_mw.t = "num" /\ t_out[n].volume_mw.v > 0
        /\ \A n, m \in 1..Len(t_out) : n # m => BRKey(t_out[n]) # BRKey(t_out[m])
        /\ {BRKey(t_out[n]) : n \in 1..Len(t_out)}
             = {InstantKeyBR(t_raw.df[i]) : i \in {x \in 1..Len(t_raw.df) : InputRowOK(t_raw.df[x])}}

C10_Witness ==
    /\ t_pc = "out" /\ t_raw.kind = "br"
    /\ t_raw.df = << TBR_Row("DE", Naive(2), "Primary Reserve", Num(3)),
                     TBR_Row("DE", Utc(1), "Primary Reserve", Str(0)),
                     TBR_Row("DE", Utc(1), NULL, Num(5)) >>
    /\ Len(t_out) = 1 /\ t_out[1].datetime_utc = Utc(1) /\ t_out[1].volume_mw = Num(3)

\* C11: for the rows given to transform_day_ahead_prices, every row with a
\* country code, a datetime and a price of 0 or more (0 included) has its key
\* in the output; every output row has a price of 0 or more and the key of
\* such an input row; no two output rows share a key (so a row with a missing
\* key or price, a price that does not parse, or a negative price such as -5
\* is dropped, and of the rows of one key only one is left).
PriceAtLeastZero(cell) == cell.t \in {"num", "str"} /\ cell.v >= 0
PriceRowOK(r) == HasKeyDAP(r) /\ PriceAtLeastZero(r.price_eur_per_mwh)

C11_PricesDroppedOnlyIfInvalid ==
    (t_pc = "out" /\ t_raw.kind = "dap") =>
        LET df == t_raw.df
        IN /\ \A i \in 1..Len(df) :
                 PriceRowOK(df[i]) =>
                     \E n \in 1..Len(t_out) : DAPKey(t_out[n]) = InstantKeyDAP(df[i])
           /\ \A n \in 1..Len(t_out) :
                 /\ t_out[n].price_eur_per_mwh.t = "num" /\ t_out[n].price_eur_per_mwh.v >= 0
                 /\ \E i \in 1..Len(df) :
                       PriceRowOK(df[i]) /\ InstantKeyDAP(df[i]) = DAPKey(t_out[n])
           /\ \A n, m \in 1..Len(t_out) : n # m => DAPKey(t_out[n]) # DAPKey(t_out[m])

\* C12: transform_balancing_reserves applied to its own output returns the
\* same rows, created_at aside: as many rows, the same set of rows, and no
\* key twice.
WithoutCreatedAt(df) == {[df[n] EXCEPT !.created_at = NoColumn] : n \in 1..Len(df)}

C12_TransformIdempotent ==
    (t_pc = "again" /\ t_raw.kind = "br") =>
        /\ Len(t_again) = Len(t_out)
        /\ WithoutCreatedAt(t_again) = WithoutCreatedAt(t_out)
        /\ \A n, m \in 1..Len(t_again) : n # m => BRKey(t_again[n]) # BRKey(t_again[m])

C12_Witness ==
    /\ t_pc = "again" /\ t_raw.kind = "br"
    /\ t_raw.df = << TBR_Row("DE", Naive(2), "Primary Reserve", Num(3)),
                     TBR_Row("DE", Utc(0), "Primary Reserve", Num(5)),
                     TBR_Row("DE", Utc(1), "Primary Reserve", Str(9)) >>
    /\ Len(t_again) = 2 /\ t_again[2].datetime_utc = Utc(1) /\ t_again[2].volume_mw = Num(9)
    /\ t_out[1].created_at = 1 /\ t_again[1].created_at = 2

\* what the claims about the parser read off a document
ValidStart(start) == start.form \in {"Z", "+01:00"}
StartInstant(start) == IF start.form = "+01:00" THEN start.wall - CetUtcOffset ELSE start.wall
IntegerPosition(point) == "position" \in DOMAIN point /\ point.position.t = "str"
PositivePosition(point) == IntegerPosition(point) /\ point.position.v > 0
RecordInstant(r) == normalize_utc_time(r.datetime_utc).wall
RecordInstants(records) == [k \in 1..Len(records) |-> RecordInstant(records[k])]

\* the points of a list of series, in document order
RECURSIVE FlatPoints(_, _)
FlatPoints(time_series, n) ==
    IF time_series = << >> THEN << >>
    ELSE [i \in 1..Len(Head(time_series).points) |->
             [series |-> n, start |-> Head(time_series).start,
              point |-> Head(time_series).points[i]]]
         \o FlatPoints(Tail(time_series), n + 1)

AllSeriesWithStart(time_series) ==
    \A i \in 1..Len(time_series) :
        time_series[i].shape = "mapping" /\ ValidStart(time_series[i].start)

\* C13: when every series has a valid period start and every point a
\* positive integer position, the parser emits one record per point, in
\* document order, each at start + (position - 1) hours, so that within a
\* series a larger position gives a later datetime; and in any document a
\* point with a positive integer position p that the parser reaches under a
\* valid start has a record at start + (p - 1) hours.
C13_DatetimeFromPosition ==
    c_pc = "returned" =>
        /\ (/\ AllSeriesWithStart(c_series)
            /\ \A i \in 1..Len(c_series) : \A j \in 1..Len(c_series[i].points) :
                    PositivePosition(c_series[i].points[j]))
             => LET flat == FlatPoints(c_series, 1)
                IN /\ Len(c_records) = Len(flat)
                   /\ \A k \in 1..Len(flat) :
                         RecordInstant(c_records[k])
                             = StartInstant(flat[k].start) + (flat[k].point.position.v - 1)
                   /\ \A k, l \in 1..Len(flat) :
                         (flat[k].series = flat[l].series
                          /\ flat[k].point.position.v < flat[l].point.position.v)
                             => RecordInstant(c_records[k]) < RecordInstant(c_records[l])
        /\ \A i \in 1..Len(c_series) :
             (c_series[i].shape = "mapping" /\ ValidStart(c_series[i].start)) =>
                 \A j \in 1..Len(c_series[i].points) :
                     (/\ PositivePosition(c_series[i].points[j])
                      /\ \A h \in 1..(j - 1) :
                            int_position(c_series[i].points[h]).raised \notin {"TypeError", "AttributeError"})
                       => \E k \in 1..Len(c_records) :
                             RecordInstant(c_records[k])
                                 = StartInstant(c_series[i].start) + (c_series[i].points[j].position.v - 1)

C13_Witness ==
    /\ c_pc = "returned" /\ c_kind = "dap"
    /\ c_series = << Series("A95", StartOffset(1), <<Point(Str(1), Str(5)), Point(Str(2), Str(7))>>),
                     Series("A96", StartZ(0), <<Point(Str(1), Str(5))>>) >>
    /\ RecordInstants(c_records) = <<0, 1, 0>>

\* C14: the parser returns (it raises nothing), and when every series has a
\* valid period start the records it returns are exactly those of the points
\* whose position is an integer, in document order: a point with a missing
\* or non-integer position gives no record and costs no other point its
\* record.
C14_BadPointSkippedAlone ==
    (c_pc = "returned" /\ AllSeriesWithStart(c_series)) =>
        LET flat == FlatPoints(c_series, 1)
            good == SelectSeq(flat, LAMBDA f : IntegerPosition(f.point))
        IN RecordInstants(c_records)
               = [k \in 1..Len(good) |-> StartInstant(good[k].start) + (good[k].point.position.v - 1)]

\* C15: _extract_time_series returns (it never raises), and it returns the
\* empty list when Publication_MarketDocument is absent or not a mapping and
\* when TimeSeries is absent, null or an empty list.
C15_AnomalyGivesEmptyList ==
    c_pc \in {"extracted", "returned"} =>
        LET pmd == c_doc.Publication_MarketDocument
        IN (\/ pmd.shape # "mapping"
            \/ pmd.TimeSeries \in {Absent, Null, List(<< >>)})
             => c_series = << >>

\* C16: for a document whose TimeSeries is a bare series s the extracted list
\* is [s], the same list the document with TimeSeries [s] gives; a TimeSeries
\* list of series is returned as it is, same series in the same order.
C16_CardinalityInvariant ==
    (c_pc = "extracted" /\ c_doc.Publication_MarketDocument.shape = "mapping") =>
        LET ts == c_doc.Publication_MarketDocument.TimeSeries
        IN /\ (ts.shape = "mapping" =>
                  /\ c_series = <<ts>>
                  /\ extract_time_series(Document(MarketDocument(List(<<ts>>)))) = c_series)
           /\ (ts.shape = "list" => c_series = ts.items)

C16_Witness ==
    /\ c_pc = "extracted"
    /\ c_doc = Document(MarketDocument(
                   Series("A95", StartZ(0), <<Point(Str(1), Str(5)), Point(Str(2), Str(7))>>)))
    /\ c_series = << Series("A95", StartZ(0), <<Point(Str(1), Str(5)), Point(Str(2), Str(7))>>) >>

\* C19: every call of requests.get carries the configured API key as
\* securityToken, and no message the client's logger emits contains the key.
C19_KeySentNeverLogged ==
    /\ \A i \in 1..Len(c_requests) : c_requests[i].securityToken = ApiKey
    /\ \A j \in 1..Len(c_log) : ApiKey \notin c_log[j].mentions

\* C17: validate_transformed_data always returns True or False, and it
\* returns False for a frame that lacks a column required for its kind, for
\* a kind other than the two known ones, and for a frame whose datetime
\* column holds a value tagged otherwise than UTC, a timezone-aware value at
\* another offset included.
RequiredOf(data_type) ==
    IF data_type = "balancing_reserves"
    THEN {"country_code", "datetime_utc", "product", "volume_mw", "created_at"}
    ELSE {"country_code", "datetime_utc", "price_eur_per_mwh", "created_at"}

LacksColumn(df, c) ==
    \E i \in 1..Len(df) : c \notin DOMAIN df[i] \/ (c = "created_at" /\ df[i].created_at = NoColumn)

HoldsNonUtc(df) ==
    \E i \in 1..Len(df) :
        /\ "datetime_utc" \in DOMAIN df[i]
        /\ df[i].datetime_utc # NaT
        /\ df[i].datetime_utc.tz # "utc"

C17_ValidationRejects ==
    t_pc = "validated" =>
        /\ t_valid \in {"true", "false"}
        /\ (\/ t_raw.kind \notin {"balancing_reserves", "day_ahead_prices"}
            \/ \E c \in RequiredOf(t_raw.kind) : LacksColumn(t_raw.df, c)
            \/ HoldsNonUtc(t_raw.df)
              => t_valid = "false")

C17_Witness ==
    /\ t_pc = "validated" /\ t_raw.kind = "day_ahead_prices"
    /\ t_raw.df = << LoadDAP_Row(Utc(1), Num(3), 1), LoadDAP_Row(Cet(2), Num(3), 1) >>
    /\ t_valid = "false"

C20_CloseIsIdempotent ==
    /\ [](last_load.kind = "close" => engine = "None")
    /\ [][last_load'.kind = "close" =>
             /\ br_table' = br_table /\ dap_table' = dap_table /\ schema' = schema
             /\ (last_load.kind = "close" => engine' = engine)]_vars

C20_Witness ==
    /\ last_load.kind = "close" /\ engine = "None"
    /\ schema /\ br_table = { LoadBR_Row(Utc(1), "Primary Reserve", 7, 2) }

\* C21: the process exit code is 0 exactly when the selected run returned
\* True; it is 1 when the run returned False, when an Exception escaped the
\* run, and when the run was interrupted; the exit code is set exactly when
\* main() has left its try.
C21_ExitCodeReflectsRun ==
    /\ exit_code \in {-1, 0, 1}
    /\ (pc \in {"finally", "exited"} <=> exit_code # -1)
    /\ (exit_code = 0 <=> pc \in {"finally", "exited"} /\ success = "true")
    /\ (exit_code # -1 /\ success = "false" => exit_code = 1)
    /\ (success = "raised" => exit_code = 1 /\ ~interrupted)
    /\ (interrupted => exit_code = 1 /\ success = "none")
    /\ (exit_code = 1 => success \in {"false", "raised"} \/ interrupted)

C21_Witness ==
    /\ pc = "exited" /\ exit_code = 0 /\ success = "true"
    /\ mode = "historical" /\ Len(processed) = 2 /\ ~interrupted

\* each series is a mapping with one point and each has given one record, so
\* record i comes from series i
OneRecordPerSeries ==
    /\ Len(c_records) = Len(c_series)
    /\ \A i \in 1..Len(c_series) :
         c_series[i].shape = "mapping" /\ Len(c_series[i].points) = 1

MappedTo(business_type, product) ==
    /\ (business_type = "A95" => product = "Primary Reserve")
    /\ (business_type = "A96" => product = "Secondary Reserve")
    /\ (business_type = "A97" => product = "Tertiary Reserve")
    /\ (business_type = "A98" => product = "Manual Frequency Restoration Reserve")
    /\ (business_type = "A99" => product = "Automatic Frequency Restoration Reserve")
    /\ (business_type \notin {"A95", "A96", "A97", "A98", "A99"} => product = business_type)

\* C22: the product of a reserves record is 'Primary Reserve', 'Secondary
\* Reserve', 'Tertiary Reserve', 'Manual Frequency Restoration Reserve' or
\* 'Automatic Frequency Restoration Reserve' when the businessType of its
\* series is A95, A96, A97, A98 or A99, and the businessType itself, the
\* empty string included, for any other code.
C22_BusinessTypeMapping ==
    (c_pc = "returned" /\ c_kind = "br" /\ OneRecordPerSeries) =>
        \A i \in 1..Len(c_series) : MappedTo(c_series[i].businessType, c_records[i].product)

C22_Witness ==
    /\ c_pc = "returned" /\ c_kind = "br" /\ Len(c_series) = 2 /\ Len(c_records) = 2
    /\ c_series[1].businessType = "A99" /\ c_series[2].businessType = ""
    /\ c_records[1].product = "Automatic Frequency Restoration Reserve"
    /\ c_records[2].product = ""

\* the date the pipeline has in hand or has just finished
DateInHand == day.date # BadDate
BothFetched == day.fetched = {"br", "dap"}
BothPassedValidation == BothFetched /\ day.br_val # "false" /\ day.dap_val # "false"
Returned(up) == up \in {"true", "false", "empty"}
ReturnedTrue(up) == up \in {"true", "empty"}
DateIsOver == pc \in {"date_done", "loop", "return", "finally", "exited"}
LastProcessed == processed[Len(processed)]

\* C23: on a date where no validation failed both upserts are attempted,
\* reserves first and prices second, the prices upsert also after the
\* reserves upsert returned False; the date is counted as successful exactly
\* when both upserts returned True.
C23_BothUpsertsAttempted ==
    /\ (Returned(day.dap_up) => Returned(day.br_up))
    /\ (pc = "load_dap" => Returned(day.br_up) /\ day.dap_up = "none")
    /\ (Returned(day.br_up) /\ pc # "load_dap" => Returned(day.dap_up))
    /\ (DateInHand /\ DateIsOver /\ BothPassedValidation =>
           /\ Returned(day.br_up) /\ Returned(day.dap_up)
           /\ (day.ok <=> ReturnedTrue(day.br_up) /\ ReturnedTrue(day.dap_up))
           /\ (pc # "date_done" =>
                  /\ LastProcessed = [date |-> day.date, ok |-> day.ok]
                  /\ (mode = "historical" =>
                         success_count + error_count = Len(processed)
                         /\ (day.ok => success_count >= 1)
                         /\ (~day.ok => error_count >= 1))))

C23_Witness ==
    /\ pc = "loop" /\ DateInHand /\ BothPassedValidation
    /\ day.br_up = "false" /\ day.dap_up = "true" /\ ~day.ok
    /\ br_table = {} /\ dap_table # {}
    /\ error_count = 1 /\ success_count = 0

ValidationFailed == day.br_val = "false" \/ day.dap_val = "false"
BothFetchedEmpty == BothFetched /\ day.br_val = "none" /\ day.dap_val = "none"
TablesUnchanged == br_table' = br_table /\ dap_table' = dap_table

\* C24: when the transform removes every row of a non-empty fetched frame,
\* validation of the empty result returns False, the date ends as an error
\* and nothing is upserted for it for either kind; a date whose two fetches
\* both returned empty frames ends as a success with no row written.
C24_EmptiedBatchFailsDate ==
    /\ [][(/\ pc = "transform_br" /\ br_df # << >> /\ ~interrupted'
            /\ transform_balancing_reserves(br_df, Now) = << >>) =>
               /\ pc' = "date_done" /\ day'.br_val = "false" /\ br_df' = << >>]_vars
    /\ [][(/\ pc = "transform_dap" /\ dap_df # << >> /\ ~interrupted'
            /\ transform_day_ahead_prices(dap_df, Now) = << >>) =>
               /\ pc' = "date_done" /\ day'.dap_val = "false" /\ dap_df' = << >>]_vars
    /\ [](ValidationFailed =>
             /\ ~day.ok /\ day.br_up = "none" /\ day.dap_up = "none"
             /\ DateIsOver
             /\ (pc # "date_done" =>
                    /\ LastProcessed = [date |-> day.date, ok |-> FALSE]
                    /\ (mode = "historical" => error_count >= 1)))
    /\ [][ValidationFailed \/ ValidationFailed' => TablesUnchanged]_vars
    /\ [](DateInHand /\ DateIsOver /\ BothFetchedEmpty =>
             /\ day.ok /\ day.br_up = "empty" /\ day.dap_up = "empty"
             /\ (pc # "date_done" =>
                    /\ LastProcessed = [date |-> day.date, ok |-> TRUE]
                    /\ (mode = "historical" => success_count >= 1)))
    /\ [][DateInHand /\ BothFetchedEmpty => TablesUnchanged]_vars

C24_Witness ==
    /\ pc = "loop" /\ mode = "historical"
    /\ processed = <<[date |-> 1, ok |-> TRUE], [date |-> 2, ok |-> FALSE]>>
    /\ day.date = 2 /\ day.br_val = "true" /\ day.dap_val = "false"
    /\ br_table = {} /\ dap_table = {}
    /\ success_count = 1 /\ error_count = 1

\* no two rows of the frame would land on the same row of the table
DistinctKeysBR(df) ==
    \A i, j \in 1..Len(df) : i # j => BRKey(StoredBR(df[i])) # BRKey(StoredBR(df[j]))
DistinctKeysDAP(df) ==
    \A i, j \in 1..Len(df) : i # j => DAPKey(StoredDAP(df[i])) # DAPKey(StoredDAP(df[j]))

\* C25: every non-empty frame the orchestrator hands to the writer has been
\* through the transformer, and within it no two rows share a natural key,
\* so the merge statement never has to update one target row twice.
C25_BatchKeysDistinct ==
    pc \in {"load_br", "load_dap"} =>
        /\ DistinctKeysBR(br_df) /\ DistinctKeysDAP(dap_df)
        /\ (br_df # << >> =>
               /\ day.br_val = "true"
               /\ \A i \in 1..Len(br_df) : br_df[i].created_at = Now)
        /\ (dap_df # << >> =>
               /\ day.dap_val = "true"
               /\ \A i \in 1..Len(dap_df) : dap_df[i].created_at = Now)

C25_Witness ==
    /\ pc = "load_br"
    /\ Len(br_df) = 1 /\ br_df[1].volume_mw = Num(7)
    /\ Len(dap_df) = 1 /\ dap_df[1].price_eur_per_mwh = Num(4)

\* natural keys of the batch of the writer call this step makes; a failed
\* call is recorded without its batch and then has to leave every row alone
BatchKeysBR ==
    IF last_load'.kind = "br"
    THEN {BRKey(StoredBR(last_load'.df[i])) : i \in 1..Len(last_load'.df)}
    ELSE {}
BatchKeysDAP ==
    IF last_load'.kind = "dap"
    THEN {DAPKey(StoredDAP(last_load'.df[i])) : i \in 1..Len(last_load'.df)}
    ELSE {}

\* C26: no writer call deletes a row or changes a row whose natural key is
\* not in its batch: every key stored before the call is stored after it,
\* rows with keys outside the batch are the same rows, a failed call changes
\* nothing, the table of the other kind is unchanged, and the row count of
\* neither table decreases.
C26_UpsertFrame ==
    [][/\ \A t \in br_table : \E u \in br_table' : BRKey(u) = BRKey(t)
       /\ \A t \in dap_table : \E u \in dap_table' : DAPKey(u) = DAPKey(t)
       /\ \A t \in br_table : BRKey(t) \notin BatchKeysBR => t \in br_table'
       /\ \A t \in dap_table : DAPKey(t) \notin BatchKeysDAP => t \in dap_table'
       /\ (last_load'.kind # "br" \/ ~last_load'.ok => br_table' = br_table)
       /\ (last_load'.kind # "dap" \/ ~last_load'.ok => dap_table' = dap_table)
       /\ Cardinality(br_table') >= Cardinality(br_table)
       /\ Cardinality(dap_table') >= Cardinality(dap_table)]_vars

C26_Witness ==
    /\ last_load.kind = "br" /\ last_load.ok /\ Len(last_load.df) = 1
    /\ last_load.df[1].volume_mw = Num(7)
    /\ Cardinality(br_table) = 2 /\ dap_table # {}
    /\ StoredBR(last_load.df[1]) \in br_table
    /\ \E t \in br_table : BRKey(t) # BRKey(StoredBR(last_load.df[1]))

GetFailures == Cardinality({i \in 1..Len(get_log) : get_log[i] = "exception"})

\* C27: a response with an error status is not retried: no GET attempt of a
\* fetch follows an attempt that got a response, so the fetch has issued one
\* request more than it had failed GET calls (exactly one when the first
\* call was answered) and it raises, ending the date as an error; a further
\* attempt is made only after a GET call that itself failed.
C27_ErrorStatusNotRetried ==
    /\ [][pc = "resp_br" => pc' # "fetch_br"]_vars
    /\ [][pc = "resp_dap" => pc' # "fetch_dap"]_vars
    /\ [][Len(get_log') > Len(get_log) =>
             /\ get_log' = Append(get_log, get_log'[Len(get_log')])
             /\ \A i \in 1..Len(get_log) : get_log[i] = "exception"]_vars
    /\ [](day.why = "http" =>
             /\ get_log # << >> /\ get_log[Len(get_log)] = "response"
             /\ Len(get_log) = GetFailures + 1
             /\ (get_log[1] = "response" => Len(get_log) = 1)
             /\ ~day.ok /\ DateIsOver
             /\ day.br_up = "none" /\ day.dap_up = "none"
             /\ (pc # "date_done" => LastProcessed = [date |-> day.date, ok |-> FALSE]))

C27_Witness ==
    /\ pc = "loop" /\ day.why = "http" /\ day.fetched = {"br"}
    /\ get_log = <<"response">> /\ error_count = 1

ReservesFetchRaised == day.why # "none" /\ "br" \notin day.fetched
NothingDoneWith(d) ==
    /\ d.br_val = "none" /\ d.dap_val = "none" /\ d.br_up = "none" /\ d.dap_up = "none"

\* C28: within one date the reserves fetch is issued before the prices fetch,
\* and both fetches have returned before any transform, validation or
\* upsert; when the reserves fetch raises the prices fetch is never issued,
\* nothing is upserted for the date, and the date is counted as an error.
C28_FetchOrder ==
    /\ []("dap" \in day.fetched => "br" \in day.fetched)
    /\ [](pc \in {"fetch_br", "resp_br"} => day.fetched = {} /\ NothingDoneWith(day))
    /\ [](pc \in {"fetch_dap", "resp_dap"} => day.fetched = {"br"} /\ NothingDoneWith(day))
    /\ [](pc \in {"transform_br", "transform_dap", "load_br", "load_dap"} => BothFetched)
    /\ [](~NothingDoneWith(day) => BothFetched)
    /\ [][~BothFetched => TablesUnchanged]_vars
    /\ [](ReservesFetchRaised =>
             /\ day.fetched = {} /\ NothingDoneWith(day)
             /\ ~day.ok /\ DateIsOver
             /\ (pc # "date_done" =>
                    /\ LastProcessed = [date |-> day.date, ok |-> FALSE]
                    /\ (mode = "historical" => error_count >= 1)))
    /\ [][ReservesFetchRaised => day' = day \/ day'.date # day.date]_vars

C28_Witness ==
    /\ pc = "loop" /\ mode = "historical"
    /\ processed = <<[date |-> 1, ok |-> TRUE], [date |-> 2, ok |-> FALSE]>>
    /\ day.date = 2 /\ ReservesFetchRaised /\ day.why = "retry"
    /\ Cardinality(br_table) = 1 /\ Cardinality(dap_table) = 1
    /\ success_count = 1 /\ error_count = 1

\* a point whose error is neither a ValueError nor a KeyError: the point is
\* null, or its position is present and null
EndsSeries(point) ==
    \/ "shape" \in DOMAIN point
    \/ "position" \in DOMAIN point /\ point.position.t = "none"

\* the points of a series that come before its first such point
PointsReached(points) ==
    SelectSeq([j \in 1..Len(points) |->
                  [point |-> points[j],
                   reached |-> \A h \in 1..j : ~EndsSeries(points[h])]],
              LAMBDA e : e.reached)

RECURSIVE InstantsReached(_)
InstantsReached(time_series) ==
    IF time_series = << >> THEN << >>
    ELSE LET first == Head(time_series)
             reached == PointsReached(first.points)
         IN [j \in 1..Len(reached) |->
                StartInstant(first.start) + (reached[j].point.position.v - 1)]
            \o InstantsReached(Tail(time_series))

\* C29: the parser always returns, and when every series has a valid period
\* start and every point either an integer position or an error that is
\* neither a value nor a key error (a null point, a null position), the
\* records are those of the points that precede the first such error in
\* their own series, in document order: the error costs the series its
\* remaining points, keeps the records of its earlier points, and leaves
\* every later series parsed.
C29_PointErrorEndsSeriesOnly ==
    /\ [][c_pc = "extracted" => c_pc' = "returned"]_vars
    /\ []((/\ c_pc = "returned" /\ AllSeriesWithStart(c_series)
            /\ \A i \in 1..Len(c_series) : \A j \in 1..Len(c_series[i].points) :
                   IntegerPosition(c_series[i].points[j]) \/ EndsSeries(c_series[i].points[j]))
             => RecordInstants(c_records) = InstantsReached(c_series))

C29_Witness ==
    /\ c_pc = "returned" /\ c_kind = "br"
    /\ c_series = << Series("A95", StartZ(0), <<Point(Str(2), Str(7)), NullPoint>>),
                     Series("A96", StartZ(0), <<Point(Str(1), Str(5))>>) >>
    /\ RecordInstants(c_records) = <<1, 0>>

EmptyRange ==
    /\ mode = "historical"
    /\ start_date # BadDate /\ end_date # BadDate
    /\ start_date > end_date

\* C30: in a historical run whose start_date is later than its end_date the
\* list of dates is empty: the run still initializes the database, makes no
\* fetch and no upsert and processes no date, and it returns True if the
\* initialization succeeded and False if it did not.
C30_EmptyRangeSucceeds ==
    EmptyRange =>
        /\ dates = << >> /\ processed = << >> /\ idx = 0
        /\ day = NoDay /\ get_log = << >>
        /\ br_table = {} /\ dap_table = {}
        /\ pc \in {"main", "init_test", "init_create", "loop", "return", "finally", "exited"}
        /\ (RunReturned =>
               /\ init_log # << >> /\ init_log[1].call = "test_connection"
               /\ (success = "true" <=> InitPassed))
        /\ (pc = "loop" => InitPassed)
        /\ (exit_code = 0 => InitPassed)

C30_Witness ==
    /\ mode = "historical" /\ start_date = 3 /\ end_date = 1
    /\ pc = "exited" /\ success = "true" /\ exit_code = 0 /\ ~interrupted
    /\ InitPassed /\ processed = << >> /\ br_table = {} /\ dap_table = {}

====
